---- MODULE Spec2Model ----
(***************************************************************************)
(* Model of the Pelalytics class scraper (src/refresh_cache.py): the       *)
(* catalog traversal extract_powerzone_classes, the caller main, the       *)
(* persistence sink save_class_to_db and, each on its own, the parsing of  *)
(* a tile's date label and the field extractor wait_for_modal_and_get;     *)
(* get_month_ranges and main of src/batch_scrape.py; fetch_candidate and   *)
(* generate_plan of src/generate_plan.py; merge_workout_data and main of   *)
(* src/pelolytics.py.                                                      *)
(*                                                                         *)
(* A datetime is the integer YYYYMMDD (the time of day is always 00:00:    *)
(* dates come from strptime of a date-only text), None is 0.  The loop     *)
(* index i is 0-based as in the code: tiles[i] is catalog[i + 1].          *)
(***************************************************************************)
EXTENDS Integers, Sequences, FiniteSets, TLC

VARIABLES
    \* arguments of extract_powerzone_classes and the host page
    max_classes, start_date, end_date, oldest_first,
    catalog,          \* the tiles of the filtered class list, in list order
    host_stable,      \* FALSE: finding, clicking and reading elements may fail
    loaded,           \* how many tiles of the list the page has rendered
    \* locals of extract_powerzone_classes
    i, classes, processed_ids, classes_outside_range, consecutive_skips,
    found_range_start, skip_increment, stale_element_errors,
    modal_data,       \* while a tile is open: "none" (the fallback has not
                      \* run: the data is the modal's) | "pending" (the
                      \* fallback runs) | "fallback" | "failed" (None after
                      \* lines 494-508); "none" again once it is read no more
    \* the tile date parser on its own (lines 400-405)
    date_text,        \* the label of the tile, a sequence of characters
    class_date,       \* the parsed date, None when the label is rejected
    \* control
    pc,               \* "setup" | "head" | "body" | "returned" | "saving"
                      \* | "finished" | "crashed" | "interrupted"
                      \* | "db" | "parse" | "parsed"
    exit,             \* how the while loop was left
    decision,         \* the branch the last loop body took
    returned,         \* the list extract_powerzone_classes returned
    \* main and the database
    db,               \* rows of table classes
    saved,            \* records main has handed to save_class_to_db
    call_log,         \* the records passed to save_class_to_db, in call order
    \* history
    stale_streak,     \* stale failures since the last appended record
    other_faults,     \* failures so far that were not stale-reference failures
    lost,             \* records extracted but not saved when interrupted
    \* the browser (driver.window_handles, the window commands go to)
    window_handles,   \* << >> once the driver has quit
    current_window,   \* "main" | "details" | "none"
    \* wait_for_modal_and_get and the record built from it, on their own
    tile_title,       \* the title read from the tile before the click (488)
    el_title,         \* the classDetailsTitle element: its state and text
    el_subtitle,      \* the classDetailsSubtitle element
    el_spans,         \* the span elements of the page, in document order
    modal_out,        \* what wait_for_modal_and_get returned, or raised
    class_info,       \* the record built at lines 539-548
    \* get_month_ranges (src/batch_scrape.py) on its own
    start_year, start_month, end_year, end_month, current, end, ranges,
    \* generate_plan and fetch_candidate (src/generate_plan.py) on their own
    plan_db,              \* the rows of table classes
    template_rows,        \* the rows of the template
    allow_fallback,       \* --allow-fallback
    row_no,               \* how many template rows the for loop has done
    prefer_instructor,    \* << >> is None
    candidate,            \* << >> is None, << c >> the row fetched
    retry,
    used_ids, instructor_counts, included_instructors,
    output_rows,          \* per output row: Template_Type, Selected_Class_ID
    unmatched,
    \* main of src/batch_scrape.py
    month_no,             \* how many ranges the for loop has done
    success,              \* the counter of line 99
    failed,               \* the list of line 100
    completed,            \* history: the ranges whose scraper run completed
    \* main of src/pelolytics.py
    workouts_csv,         \* output/workouts.csv: << >> no file, << rows >>
    metrics_csv,          \* output/workout_metrics.csv
    raw_workouts,         \* what fetch_workouts returned in this sync
    sync_no               \* history: the syncs started so far

vars == << max_classes, start_date, end_date, oldest_first, catalog,
           host_stable, loaded, modal_data, date_text, class_date, i, classes, processed_ids, classes_outside_range,
           consecutive_skips, found_range_start, skip_increment,
           stale_element_errors, pc, exit, decision, returned, db, saved,
           call_log, stale_streak, other_faults, lost, window_handles,
           current_window, tile_title, el_title, el_subtitle, el_spans,
           modal_out, class_info, start_year, start_month, end_year,
           end_month, current, end, ranges, plan_db, template_rows,
           allow_fallback, row_no, prefer_instructor, candidate, retry,
           used_ids, instructor_counts, included_instructors, output_rows,
           unmatched, month_no, success, failed, completed, workouts_csv,
           metrics_csv, raw_workouts, sync_no >>

config == << max_classes, start_date, end_date, oldest_first, catalog,
             host_stable >>

locals == << i, classes, processed_ids, classes_outside_range,
             consecutive_skips, found_range_start, skip_increment,
             stale_element_errors >>

parser == << date_text, class_date >>

windows == << window_handles, current_window >>

\* No driver: the function under study does not use the browser.
NoBrowser == window_handles = << >> /\ current_window = "none"

fields == << tile_title, el_title, el_subtitle, el_spans, modal_out,
             class_info >>

month_vars == << start_year, start_month, end_year, end_month, current,
                 end,
                 ranges >>

plan_input == << plan_db, template_rows, allow_fallback >>

plan_vars == << plan_input, row_no, prefer_instructor, candidate, retry,
                used_ids, instructor_counts, included_instructors,
                output_rows, unmatched >>

batch_vars == << month_no, success, failed, completed >>

sync_vars == << workouts_csv, metrics_csv, raw_workouts, sync_no >>

\* The state of the functions that are modelled on their own.
aside == << parser, fields, month_vars, plan_vars, batch_vars, sync_vars >>

\* main of batch_scrape.py is not called.
NoBatch ==
    /\ month_no = 0
    /\ success = 0
    /\ failed = << >>
    /\ completed = {}

\* main of pelolytics.py is not called.
NoSync ==
    /\ workouts_csv = << >>
    /\ metrics_csv = << >>
    /\ raw_workouts = << >>
    /\ sync_no = 0

\* generate_plan is not called.
NoPlan ==
    /\ plan_db = {}
    /\ template_rows = << >>
    /\ allow_fallback = FALSE
    /\ row_no = 0
    /\ prefer_instructor = << >>
    /\ candidate = << >>
    /\ retry = 0
    /\ used_ids = {}
    /\ instructor_counts = << >>
    /\ included_instructors = {}
    /\ output_rows = << >>
    /\ unmatched = 0

\* The state of the traversal, of main and of the date parser, but for pc.
scraper == << config, windows, parser, loaded, modal_data, locals, exit,
             decision, returned, db, saved, call_log, stale_streak,
             other_faults, lost >>

\* An element of the page: state is "ok", "missing" (find_element raises
\* NoSuchElementException) or "stale" (reading its text raises).
Element(state, text) == [state |-> state, text |-> text]

\* No value yet: modal_out before the call, class_info before it is built.
\* A field that may be None is << >> for None and << v >> for the value v.
NoOut ==
    [raised |-> FALSE, title |-> << >>, instructor |-> << >>,
     duration |-> << >>, rating |-> << >>]

NoRecord ==
    [title |-> << >>, instructor |-> << >>, duration_minutes |-> << >>,
     difficulty_rating |-> << >>]

\* No detail view: the function under study does not read one.
NoFields ==
    /\ tile_title = << >>
    /\ el_title = Element("missing", << >>)
    /\ el_subtitle = Element("missing", << >>)
    /\ el_spans = << >>
    /\ modal_out = NoOut
    /\ class_info = NoRecord

----------------------------------------------------------------------------
(* Program constants *)

None == 0

\* get_month_ranges is not called.
NoMonths ==
    /\ start_year = 0
    /\ start_month = 0
    /\ end_year = 0
    /\ end_month = 0
    /\ current = None
    /\ end = None
    /\ ranges = << >>

max_stale_errors == 5
BacktrackTiles == 20
ConsecutiveSkipLimit == 10
ClassesPerMonth == 27
DefaultMaxClasses == 10000
EarliestYear == 2019
NowDate == 20250615

(* Bounds of the model *)

SmallCap == 2        \* the small value of max_classes
PadLen == 20         \* length of the uniform block in the middle of a catalog
FaultLen == 6        \* length of the catalogs served by an unstable host
MaxOtherFaults == 1  \* failures per run that are not stale-reference failures
MaxOutsideCount == 3 \* classes_outside_range is counted up to this value
MaxDbIds == 2        \* ids of the records saved under SpecDb
MaxDbCalls == 3      \* save_class_to_db calls under SpecDb
PageSize == 10       \* tiles the host renders at first and per scroll
LeadSkips == 4       \* before-start tiles ahead of the tile that interrupts them

----------------------------------------------------------------------------
(* datetime *)

Year(d) == d \div 10000
Month(d) == (d \div 100) % 100
Day(d) == d % 100

Abs(n) == IF n < 0 THEN 0 - n ELSE n
Max(a, b) == IF a >= b THEN a ELSE b
Min(a, b) == IF a <= b THEN a ELSE b

\* abs((a.year - b.year) * 12 + (a.month - b.month))
MonthsBetween(a, b) == Abs((Year(a) - Year(b)) * 12 + (Month(a) - Month(b)))

\* Faulty variant of SkipFor: the estimate is rounded, not truncated.
SkipFor_round(months) == Max(1, (months * ClassesPerMonth * 8 + 5) \div 10)

\* max(1, int(months * 27 * 0.8))
SkipFor(months) == Max(1, (months * ClassesPerMonth * 8) \div 10)

\* class_date.strftime('%Y-%m-%d'): the three fields of the text
Strftime(d) == << Year(d), Month(d), Day(d) >>

\* air_time = "" ; if class_date: air_time = class_date.strftime(...)
AirTime(d) == IF d = None THEN << >> ELSE Strftime(d)

----------------------------------------------------------------------------
(* Inputs: window bounds, tile dates and catalogs *)

StartDates == {None, 20250310}
EndDates == {None, 20250320}

\* Tile dates around the window 2025-03-10 .. 2025-03-20; None is a tile
\* whose date label is missing or unparsable.
TileDates == {20250415, 20250325, 20250320, 20250310, 20250305, 20250215, None}

Pad(d, n) == [k \in 1..n |-> d]

ShortSeqs == {<< >>} \cup {<< d >> : d \in TileDates}

\* A head tile, an optional uniform block, a tail tile.
StableDateSeqs ==
    { h \o p \o t : h \in ShortSeqs,
                    p \in {<< >>} \cup {Pad(d, PadLen) : d \in TileDates},
                    t \in ShortSeqs } \ {<< >>}

\* A tile in the window, before-start tiles, one tile x that interrupts them,
\* and enough before-start tiles to count to the limit of line 467.
SkipRunSeqs ==
    { << 20250315 >> \o Pad(20250305, a) \o << x >> \o Pad(20250305, ConsecutiveSkipLimit) :
          a \in {1, LeadSkips}, x \in {20250315, None} }

\* A first tile ten calendar months away from the window (either side).
FarDateSeqs == { << 20260115, 20250315 >>, << 20240505, 20250315 >> }

\* Under an unstable host: uniform lists, and a dateless tile ahead of a
\* uniform list.
UnstableDateSeqs ==
    {Pad(d, FaultLen) : d \in TileDates}
        \cup { << None >> \o Pad(20250315, FaultLen - 1) }

\* Every tile opens a class of its own: the id is the classId of the URL.
MkCatalog(ds) == [k \in 1..Len(ds) |-> [id |-> k, date |-> ds[k]]]

\* The host re-rendered the list while it was traversed (a class was added on
\* top): the class of the last tile shows again at the next position.
Rerendered(c) == Append(c, c[Len(c)])

StableCatalogs ==
    { MkCatalog(ds) : ds \in StableDateSeqs \cup SkipRunSeqs \cup FarDateSeqs }
        \cup { Rerendered(MkCatalog(ds)) :
                   ds \in { << 20250320, 20250310 >>, << None, None >> } }
        \cup { << >> }

UnstableCatalogs == { MkCatalog(ds) : ds \in UnstableDateSeqs }

----------------------------------------------------------------------------
(* extract_powerzone_classes: set-up *)

\* Lines 332-358: the skip estimated before the loop.
InitialSkip ==
    IF start_date = None /\ end_date = None THEN 1
    ELSE LET months_to_skip ==
                 IF oldest_first
                 THEN Abs((Year(start_date) - EarliestYear) * 12 + Month(start_date))
                 ELSE IF end_date # None
                      THEN MonthsBetween(NowDate, end_date)
                      ELSE MonthsBetween(NowDate, start_date)
         IN  SkipFor(months_to_skip)

Init ==
    /\ max_classes \in {SmallCap, DefaultMaxClasses}
    /\ start_date \in StartDates
    /\ end_date \in EndDates
    /\ oldest_first \in BOOLEAN
    /\ host_stable \in BOOLEAN
    /\ catalog \in IF host_stable THEN StableCatalogs ELSE UnstableCatalogs
    \* a list without tiles costs a 10 s wait per position: the small cap
    /\ catalog = << >> => max_classes = SmallCap
    /\ loaded = 0
    /\ modal_data = "none"
    /\ date_text = << >>
    /\ class_date = None
    /\ i = 0
    /\ classes = << >>
    /\ processed_ids = {}
    /\ classes_outside_range = 0
    /\ consecutive_skips = 0
    /\ found_range_start = FALSE
    /\ skip_increment = 1
    /\ stale_element_errors = 0
    /\ pc = "setup"
    /\ exit = "none"
    /\ decision = "none"
    /\ returned = << >>
    /\ db = {}
    /\ saved = 0
    /\ call_log = << >>
    /\ stale_streak = 0
    /\ other_faults = 0
    /\ lost = 0
    /\ window_handles = << "main" >>
    /\ current_window = "main"
    /\ NoFields
    /\ NoMonths
    /\ NoPlan
    /\ NoBatch
    /\ NoSync

\* Lines 686-689, the finally of main: driver.quit() closes every window.
Quit == window_handles' = << >> /\ current_window' = "none"

\* Lines 270-321: navigation or the filter menu fails: return [].
SetupFail ==
    /\ pc = "setup"
    /\ ~host_stable
    /\ pc' = "returned"
    /\ exit' = "setup_fail"
    /\ returned' = << >>
    /\ UNCHANGED << config, aside, windows, loaded, modal_data, locals, decision, db, saved, call_log, stale_streak,
                    other_faults, lost >>

\* Line 345: oldest_first with a window but no start_date reads
\* start_date.year of None; the AttributeError leaves the function and is
\* caught by main (lines 682-685).
SetupCrash ==
    /\ pc = "setup"
    /\ (start_date # None \/ end_date # None)
    /\ oldest_first
    /\ start_date = None
    /\ pc' = "crashed"
    /\ exit' = "crash"
    /\ Quit
    /\ UNCHANGED << config, aside, loaded, modal_data, locals, decision, returned, db, saved, call_log,
                    stale_streak, other_faults, lost >>

\* Lines 323-363.
SetupOk ==
    /\ pc = "setup"
    /\ ~((start_date # None \/ end_date # None) /\ oldest_first /\ start_date = None)
    /\ skip_increment' = InitialSkip
    /\ i' = 0
    /\ loaded' = Min(PageSize, Len(catalog))
    /\ pc' = "head"
    /\ UNCHANGED << config, aside, windows, modal_data, classes, processed_ids, classes_outside_range,
                    consecutive_skips, found_range_start,
                    stale_element_errors, exit, decision, returned, db,
                    saved, call_log, stale_streak, other_faults, lost >>

----------------------------------------------------------------------------
(* The loop head: while i < max_classes, and loading the tile (364-395) *)

\* Faulty variant of LoopCondition: one position too many.
LoopCondition_le == i <= max_classes

\* Line 364: while i < max_classes
LoopCondition == i < max_classes

\* Faulty variant of Return: the collected records are dropped.
ReturnNothing(how) ==
    /\ pc' = "returned"
    /\ exit' = how
    /\ returned' = << >>

\* Line 616 (and the breaks that lead to it): return classes.
Return(how) ==
    /\ pc' = "returned"
    /\ exit' = how
    /\ returned' = classes

\* Line 364 is false: the loop ends and classes is returned (616).
LoopExit ==
    /\ pc = "head"
    /\ ~LoopCondition
    /\ Return("cap")
    /\ UNCHANGED << config, aside, windows, loaded, modal_data, locals, decision, db, saved, call_log, stale_streak,
                    other_faults, lost >>

\* Lines 369-371: no tile is on the page: the wait times out after 10 s, the
\* TimeoutException reaches the handler of the loop (574), which does not
\* count it, and line 614 moves to the next position.
NoTilesLoaded ==
    /\ pc = "head"
    /\ LoopCondition
    /\ loaded = 0
    /\ decision' = "error"
    /\ other_faults' = other_faults + 1
    /\ i' = i + 1
    /\ UNCHANGED << config, aside, windows, loaded, modal_data, classes, processed_ids,
                    classes_outside_range, consecutive_skips,
                    found_range_start, skip_increment, stale_element_errors,
                    pc, exit, returned, db, saved, call_log, stale_streak,
                    lost >>

\* Lines 374-385: tile #i is not loaded: scroll to the bottom, find the tiles
\* again; there are more than before.
LoadMore ==
    /\ pc = "head"
    /\ LoopCondition
    /\ loaded > 0
    /\ i >= loaded
    /\ loaded < Len(catalog)
    /\ loaded' = Min(loaded + PageSize, Len(catalog))
    /\ UNCHANGED << config, aside, windows, modal_data, locals, pc, exit, decision,
                    returned, db, saved, call_log, stale_streak, other_faults,
                    lost >>

\* Lines 374-390: scrolling loads no new tile (381-384) and tile #i is still
\* not there (387-390): break.
EndOfCatalog ==
    /\ pc = "head"
    /\ LoopCondition
    /\ loaded > 0
    /\ i >= loaded
    /\ loaded = Len(catalog)
    /\ Return("end_of_catalog")
    /\ UNCHANGED << config, aside, windows, loaded, modal_data, locals, decision, db, saved, call_log, stale_streak,
                    other_faults, lost >>

\* Lines 369-395: tile = tiles[i].
FetchTile ==
    /\ pc = "head"
    /\ LoopCondition
    /\ i < loaded
    /\ pc' = "body"
    /\ UNCHANGED << config, aside, windows, loaded, modal_data, locals, exit, decision, returned, db, saved, call_log,
                    stale_streak, other_faults, lost >>

----------------------------------------------------------------------------
(* The loop body: the date of the tile and the window (397-485) *)

Tile == catalog[i + 1]

\* start_date and class_date < start_date
BeforeStart(d) == start_date # None /\ d < start_date

\* end_date and class_date > end_date
AfterEnd(d) == end_date # None /\ d > end_date

\* Faulty variant of in_range: the end bound is not checked.
in_range_no_end(d) == ~BeforeStart(d)

\* Lines 441-446.
in_range(d) == ~BeforeStart(d) /\ ~AfterEnd(d)

\* Lines 413 and 424.
months_remaining(d) ==
    IF oldest_first THEN MonthsBetween(start_date, d)
                    ELSE MonthsBetween(d, end_date)

\* Faulty variant of BackedUp: one tile short.
BackedUp_short(n) == Max(0, n - (BacktrackTiles - 1))

\* Lines 438 and 453: i = max(0, i - 20).
BackedUp(n) == Max(0, n - BacktrackTiles)

\* Faulty variant of SkipLimitReached: one before-start tile too many.
SkipLimitReached_gt(n) == n > ConsecutiveSkipLimit

\* Line 467: consecutive_skips >= 10
SkipLimitReached(n) == n >= ConsecutiveSkipLimit

\* The branch lines 398-485 take for a tile dated d, in the order of the code.
\* A label that cannot be read or parsed raises inside the inner try: the
\* tile is processed with class_date = None.
Decision(d) ==
    IF d = None THEN "open"
    ELSE IF ~found_range_start /\ oldest_first /\ BeforeStart(d)
            /\ months_remaining(d) > 0 THEN "fast_forward"
    ELSE IF ~found_range_start /\ ~oldest_first /\ AfterEnd(d)
            /\ months_remaining(d) > 0 THEN "fast_forward"
    ELSE IF ~found_range_start /\ ~oldest_first /\ BeforeStart(d) THEN "overshoot"
    ELSE IF in_range(d) /\ ~found_range_start THEN "enter"
    ELSE IF oldest_first /\ AfterEnd(d) THEN "stop"
    ELSE IF ~oldest_first /\ BeforeStart(d)
         THEN IF found_range_start /\ SkipLimitReached(consecutive_skips + 1)
              THEN "stop10" ELSE "skip1"
    ELSE IF ~in_range(d) THEN "step"
    ELSE "open"

Body(dec) ==
    /\ pc = "body"
    /\ Decision(Tile.date) = dec
    /\ decision' = dec

\* classes_outside_range += 1 (418, 429).  The counter is only written; a
\* traversal that never ends would count for ever, so the count saturates.
CountOutside(n) == IF n < MaxOutsideCount THEN n + 1 ELSE n

\* Lines 409-431: not in the window yet and at least a month away.
FastForward ==
    /\ Body("fast_forward")
    /\ skip_increment' = SkipFor(months_remaining(Tile.date))
    /\ classes_outside_range' = CountOutside(classes_outside_range)
    /\ i' = i + skip_increment'
    /\ pc' = "head"
    /\ UNCHANGED << config, aside, windows, loaded, modal_data, classes, processed_ids, consecutive_skips,
                    found_range_start, stale_element_errors, exit, returned,
                    db, saved, call_log, stale_streak, other_faults, lost >>

\* Lines 433-439: newest-first, the window not entered, a date before it.
Overshoot ==
    /\ Body("overshoot")
    /\ i' = BackedUp(i)
    /\ pc' = "head"
    /\ UNCHANGED << config, aside, windows, loaded, modal_data, classes, processed_ids, classes_outside_range,
                    consecutive_skips, found_range_start, skip_increment,
                    stale_element_errors, exit, returned, db, saved, call_log,
                    stale_streak, other_faults, lost >>

\* Faulty variant of EnterRange: the flag is not set.
EnterRange_no_flag ==
    /\ Body("enter")
    /\ i' = BackedUp(i)
    /\ pc' = "head"
    /\ UNCHANGED << config, aside, windows, loaded, modal_data, classes, processed_ids,
                    classes_outside_range, consecutive_skips,
                    found_range_start, skip_increment, stale_element_errors,
                    exit, returned, db, saved, call_log, stale_streak,
                    other_faults, lost >>

\* Lines 448-455: the first date in the window.
EnterRange ==
    /\ Body("enter")
    /\ found_range_start' = TRUE
    /\ i' = BackedUp(i)
    /\ pc' = "head"
    /\ UNCHANGED << config, aside, windows, loaded, modal_data, classes, processed_ids, classes_outside_range,
                    consecutive_skips, skip_increment, stale_element_errors,
                    exit, returned, db, saved, call_log, stale_streak, other_faults,
                    lost >>

\* Lines 458-462: oldest-first, a date after end_date: break.
StopPastEnd ==
    /\ Body("stop")
    /\ Return("stop")
    /\ UNCHANGED << config, aside, windows, loaded, modal_data, locals, db, saved, call_log, stale_streak, other_faults,
                    lost >>

\* Lines 464-471: newest-first, a date before start_date, fewer than 10 in a row.
SkipBeforeStart ==
    /\ Body("skip1")
    /\ consecutive_skips' = consecutive_skips + 1
    /\ i' = i + 1
    /\ pc' = "head"
    /\ UNCHANGED << config, aside, windows, loaded, modal_data, classes, processed_ids, classes_outside_range,
                    found_range_start, skip_increment, stale_element_errors,
                    exit, returned, db, saved, call_log, stale_streak, other_faults,
                    lost >>

\* Lines 464-469: the 10th in a row: break.
StopTenSkips ==
    /\ Body("stop10")
    /\ consecutive_skips' = consecutive_skips + 1
    /\ Return("stop")
    /\ UNCHANGED << config, aside, windows, loaded, modal_data, i, classes, processed_ids, classes_outside_range,
                    found_range_start, skip_increment, stale_element_errors,
                    db, saved, call_log, stale_streak, other_faults, lost >>

\* Lines 473-477: outside the window on the approach side, less than a month
\* away, or an out-of-order date after the window was entered.
NotInRange ==
    /\ Body("step")
    /\ i' = i + 1
    /\ pc' = "head"
    /\ UNCHANGED << config, aside, windows, loaded, modal_data, classes, processed_ids, classes_outside_range,
                    consecutive_skips, found_range_start, skip_increment,
                    stale_element_errors, exit, returned, db, saved, call_log,
                    stale_streak, other_faults, lost >>

----------------------------------------------------------------------------
(* The loop body: opening the tile and extracting the record (487-572) *)

\* Lines 479-480 run before the tile is opened, for a tile with a date.
\* Faulty variant of FoundAfterOpen: a tile without a date clears the flag.
FoundAfterOpen_reset(d) == d # None

FoundAfterOpen(d) == IF d = None THEN found_range_start ELSE TRUE
SkipsAfterOpen(d) == IF d = None THEN consecutive_skips ELSE 0

\* Lines 539-553 (the fields the traversal decides).
ClassInfo(tile) == [id |-> tile.id, original_air_time |-> AirTime(tile.date)]

\* Lines 494-506 and 249-250: the wait for the modal (496) times out or meets
\* a stale reference; scrape_via_details_page opens the details page of the
\* class id in a new window and switches the driver to the last handle.
FallbackOpen ==
    /\ Body("open")
    /\ ~host_stable
    /\ modal_data = "none"
    /\ modal_data' = "pending"
    /\ found_range_start' = FoundAfterOpen(Tile.date)
    /\ consecutive_skips' = SkipsAfterOpen(Tile.date)
    /\ window_handles' = Append(window_handles, "details")
    /\ current_window' = window_handles'[Len(window_handles')]
    /\ UNCHANGED << config, aside, loaded, i, classes, processed_ids,
                    classes_outside_range, skip_increment,
                    stale_element_errors, pc, exit, returned, db, saved,
                    call_log, stale_streak, other_faults, lost >>

\* Faulty variant of CloseDetails: the window is closed only when the
\* extraction returned, as it would be without the finally.
CloseDetails_no_finally(ok) ==
    IF ok
    THEN /\ window_handles' = SubSeq(window_handles, 1, Len(window_handles) - 1)
         /\ current_window' = window_handles'[1]
    ELSE UNCHANGED windows

\* Lines 254-256, the finally: driver.close() closes the window the driver
\* is on (the last one), then the driver switches to window_handles[0].
CloseDetails(ok) ==
    /\ window_handles' = SubSeq(window_handles, 1, Len(window_handles) - 1)
    /\ current_window' = window_handles'[1]

\* Lines 251-256 and 506-508: wait_for_modal_and_get on the details page
\* returns the data or raises (the except of 507 leaves modal_data None,
\* "failed"); either way the finally runs first.
FallbackClose ==
    /\ pc = "body"
    /\ modal_data = "pending"
    /\ \E ok \in BOOLEAN :
          /\ ~ok => other_faults < MaxOtherFaults
          /\ modal_data' = IF ok THEN "fallback" ELSE "failed"
          /\ CloseDetails(ok)
    /\ UNCHANGED << config, aside, loaded, locals, pc, exit, decision,
                    returned, db, saved, call_log, stale_streak, other_faults,
                    lost >>

\* Faulty variant of NotProcessed: the set of processed ids is not consulted.
NotProcessed_any(id) == TRUE

\* Line 511 is false: class_id not in processed_ids.
NotProcessed(id) == id \notin processed_ids

\* Lines 518-572 and 614: the record is appended, the modal closed, i += 1.
\* The modal data comes from the modal (496) or from the details-page
\* fallback that ran before.
Extract ==
    /\ Body("open")
    /\ NotProcessed(Tile.id)
    /\ modal_data \in {"none", "fallback"}
    /\ modal_data' = "none"
    /\ found_range_start' = FoundAfterOpen(Tile.date)
    /\ consecutive_skips' = SkipsAfterOpen(Tile.date)
    /\ processed_ids' = processed_ids \cup {Tile.id}
    /\ classes' = Append(classes, ClassInfo(Tile))
    /\ i' = i + 1
    /\ stale_streak' = 0
    /\ pc' = "head"
    /\ UNCHANGED << config, aside, windows, loaded, classes_outside_range,
                    skip_increment, stale_element_errors, exit, returned, db,
                    saved, call_log, other_faults, lost >>

\* Lines 510-516: the class was opened before: close the modal and continue.
\* The continue skips line 614: i keeps its value.
AlreadyProcessed ==
    /\ Body("open")
    /\ ~NotProcessed(Tile.id)
    /\ modal_data # "pending"
    /\ modal_data' = "none"
    /\ found_range_start' = FoundAfterOpen(Tile.date)
    /\ consecutive_skips' = SkipsAfterOpen(Tile.date)
    /\ pc' = "head"
    /\ UNCHANGED << config, aside, windows, loaded, i, classes, processed_ids, classes_outside_range,
                    skip_increment, stale_element_errors, exit, returned, db,
                    saved, call_log, stale_streak, other_faults, lost >>

----------------------------------------------------------------------------
(* The except handler of the loop (574-614) *)

\* stale_element_errors += 1 (line 580)
StaleCount(n) == n + 1

\* Faulty variant of AbortNow: the threshold is passed, not reached.
AbortNow_gt(n) == n > max_stale_errors

\* Line 583: stale_element_errors >= max_stale_errors
AbortNow(n) == n >= max_stale_errors

\* A stale element reference, raised by scrollIntoView (394, before the date
\* is read) or by reading the title or clicking the tile (488-492, opened).
StaleRaised(opened) ==
    /\ pc = "body"
    /\ ~host_stable
    /\ modal_data = "none"
    /\ opened => Decision(Tile.date) = "open"
    /\ decision' = "stale"
    /\ found_range_start' = IF opened THEN FoundAfterOpen(Tile.date)
                                      ELSE found_range_start
    /\ consecutive_skips' = IF opened THEN SkipsAfterOpen(Tile.date)
                                      ELSE consecutive_skips
    /\ stale_element_errors' = StaleCount(stale_element_errors)
    /\ stale_streak' = stale_streak + 1

\* Lines 579-583 false at 583, then 599-614: i += 1.
StaleFailure ==
    /\ \E opened \in BOOLEAN : StaleRaised(opened)
    /\ ~AbortNow(stale_element_errors')
    /\ i' = i + 1
    /\ pc' = "head"
    /\ UNCHANGED << config, aside, windows, loaded, modal_data, classes, processed_ids, classes_outside_range,
                    skip_increment, exit, returned, db, saved, call_log,
                    other_faults, lost >>

\* Lines 583-597: break, and classes is returned.
StaleAbort ==
    /\ \E opened \in BOOLEAN : StaleRaised(opened)
    /\ AbortNow(stale_element_errors')
    /\ Return("abort")
    /\ UNCHANGED << config, aside, windows, loaded, modal_data, i, classes, processed_ids, classes_outside_range,
                    skip_increment, db, saved, call_log, other_faults, lost >>

\* Another exception before the tile is opened (the wait for the tiles at 369
\* times out): not counted, i += 1.
OtherFailure ==
    /\ pc = "body"
    /\ ~host_stable
    /\ modal_data = "none"
    /\ other_faults < MaxOtherFaults
    /\ other_faults' = other_faults + 1
    /\ decision' = "error"
    /\ i' = i + 1
    /\ pc' = "head"
    /\ UNCHANGED << config, aside, windows, loaded, modal_data, classes, processed_ids, classes_outside_range,
                    consecutive_skips, found_range_start, skip_increment,
                    stale_element_errors, exit, returned, db, saved, call_log,
                    stale_streak, lost >>

\* The browser session ends while a tile is handled (the browser crashed, the
\* session expired): the command that was running raises, the handler of the
\* loop (574) finds no "stale element" in the message, the attempts to close
\* the modal (602-611) fail silently and line 614 moves to the next position.
\* From then on every command raises: no tile can be found (NoTilesLoaded).
\* Explored for the small cap only.
SessionLost ==
    /\ pc = "body"
    /\ ~host_stable
    /\ modal_data = "none"
    /\ max_classes = SmallCap
    /\ decision' = "session_lost"
    /\ other_faults' = other_faults + 1
    /\ window_handles' = << >>
    /\ current_window' = "none"
    /\ loaded' = 0
    /\ i' = i + 1
    /\ pc' = "head"
    /\ UNCHANGED << config, aside, modal_data, classes, processed_ids,
                    classes_outside_range, consecutive_skips,
                    found_range_start, skip_increment, stale_element_errors,
                    exit, returned, db, saved, call_log, stale_streak, lost >>

\* Lines 510-522: the modal and the fallback both failed, modal_data is None;
\* the id is added to processed_ids (518) before modal_data.get raises (522).
FallbackFailed ==
    /\ pc = "body"
    /\ ~host_stable
    /\ Decision(Tile.date) = "open"
    /\ NotProcessed(Tile.id)
    /\ modal_data = "failed"
    /\ modal_data' = "none"
    /\ other_faults' = other_faults + 1
    /\ decision' = "error"
    /\ found_range_start' = FoundAfterOpen(Tile.date)
    /\ consecutive_skips' = SkipsAfterOpen(Tile.date)
    /\ processed_ids' = processed_ids \cup {Tile.id}
    /\ i' = i + 1
    /\ pc' = "head"
    /\ UNCHANGED << config, aside, windows, loaded, classes,
                    classes_outside_range, skip_increment,
                    stale_element_errors, exit, returned, db, saved, call_log,
                    stale_streak, lost >>

----------------------------------------------------------------------------
(* save_class_to_db and main *)

\* Faulty variant of SaveRows: INSERT OR IGNORE, the first row is kept.
SaveRows_ignore(rows, cls) ==
    IF \E r \in rows : r.id = cls.id THEN rows ELSE rows \cup {cls}

\* INSERT OR REPLACE on the primary key id (lines 176-183).
SaveRows(rows, cls) == {r \in rows : r.id # cls.id} \cup {cls}

\* Lines 675-681: if classes: ... else nothing to save.
MainStart ==
    /\ pc = "returned"
    /\ pc' = IF returned # << >> THEN "saving" ELSE "finished"
    /\ IF returned # << >> THEN UNCHANGED windows ELSE Quit
    /\ UNCHANGED << config, aside, loaded, modal_data, locals, exit, decision, returned, db, saved,
                    call_log, stale_streak, other_faults, lost >>

\* Lines 677-678: one save_class_to_db call.
MainSave ==
    /\ pc = "saving"
    /\ saved < Len(returned)
    /\ db' = SaveRows(db, returned[saved + 1])
    /\ call_log' = Append(call_log, returned[saved + 1])
    /\ saved' = saved + 1
    /\ UNCHANGED << config, aside, windows, loaded, modal_data, locals, pc, exit, decision, returned,
                    stale_streak, other_faults, lost >>

\* Lines 679-689.
MainDone ==
    /\ pc = "saving"
    /\ saved = Len(returned)
    /\ pc' = "finished"
    /\ Quit
    /\ UNCHANGED << config, aside, loaded, modal_data, locals, exit, decision, returned, db, saved,
                    call_log, stale_streak, other_faults, lost >>

\* A KeyboardInterrupt is no Exception: neither handler (574, 682) catches it,
\* the locals are gone, main's finally quits the driver, the database keeps
\* what was committed.
Interrupt ==
    /\ pc \in {"head", "body", "returned", "saving"}
    /\ lost' = IF pc \in {"head", "body"} THEN Len(classes)
                                          ELSE Len(returned) - saved
    /\ pc' = "interrupted"
    /\ i' = 0
    /\ classes' = << >>
    /\ processed_ids' = {}
    /\ classes_outside_range' = 0
    /\ consecutive_skips' = 0
    /\ found_range_start' = FALSE
    /\ skip_increment' = 1
    /\ stale_element_errors' = 0
    /\ returned' = << >>
    /\ saved' = 0
    /\ stale_streak' = 0
    /\ other_faults' = 0
    /\ loaded' = 0
    /\ modal_data' = "none"
    /\ exit' = "interrupt"
    /\ decision' = "none"
    /\ Quit
    /\ UNCHANGED << config, aside, db, call_log >>

----------------------------------------------------------------------------
(* Specifications *)

Run ==
    \/ SetupFail
    \/ SetupCrash
    \/ SetupOk
    \/ LoopExit
    \/ NoTilesLoaded
    \/ LoadMore
    \/ EndOfCatalog
    \/ FetchTile
    \/ FastForward
    \/ Overshoot
    \/ EnterRange
    \/ StopPastEnd
    \/ SkipBeforeStart
    \/ StopTenSkips
    \/ NotInRange
    \/ FallbackOpen
    \/ FallbackClose
    \/ Extract
    \/ AlreadyProcessed
    \/ StaleFailure
    \/ StaleAbort
    \/ OtherFailure
    \/ SessionLost
    \/ FallbackFailed
    \/ MainStart
    \/ MainSave
    \/ MainDone

Next == Run \/ Interrupt

Spec == Init /\ [][Next]_vars

\* A sequential program: while a statement can run, one does.
FairSpec == Init /\ [][Next]_vars /\ WF_vars(Run)

----------------------------------------------------------------------------
(* save_class_to_db on its own: any sequence of calls *)

DbRecords ==
    [id : 1..MaxDbIds,
     original_air_time : {AirTime(d) : d \in {None, 20250310, 20250320}}]

InitDb ==
    /\ max_classes = DefaultMaxClasses
    /\ start_date = None
    /\ end_date = None
    /\ oldest_first = FALSE
    /\ host_stable = TRUE
    /\ catalog = << >>
    /\ loaded = 0
    /\ modal_data = "none"
    /\ date_text = << >>
    /\ class_date = None
    /\ i = 0
    /\ classes = << >>
    /\ processed_ids = {}
    /\ classes_outside_range = 0
    /\ consecutive_skips = 0
    /\ found_range_start = FALSE
    /\ skip_increment = 1
    /\ stale_element_errors = 0
    /\ pc = "db"
    /\ exit = "none"
    /\ decision = "none"
    /\ returned = << >>
    /\ db = {}
    /\ saved = 0
    /\ call_log = << >>
    /\ stale_streak = 0
    /\ other_faults = 0
    /\ lost = 0
    /\ NoBrowser
    /\ NoFields
    /\ NoMonths
    /\ NoPlan
    /\ NoBatch
    /\ NoSync

\* save_class_to_db(cls), lines 157-187.
SaveCall ==
    /\ pc = "db"
    /\ Len(call_log) < MaxDbCalls
    /\ \E cls \in DbRecords :
          /\ db' = SaveRows(db, cls)
          /\ call_log' = Append(call_log, cls)
    /\ UNCHANGED << config, aside, windows, loaded, modal_data, locals, pc, exit, decision, returned, saved,
                    stale_streak, other_faults, lost >>

NextDb == SaveCall

SpecDb == InitDb /\ [][NextDb]_vars

----------------------------------------------------------------------------
(* The tile date parser on its own (lines 400-405).  A text is a sequence of *)
(* characters.                                                              *)

Digits == << "0", "1", "2", "3", "4", "5", "6", "7", "8", "9" >>

IsDigit(c) == \E k \in 1..Len(Digits) : Digits[k] = c

DigitVal(c) == (CHOOSE k \in 1..Len(Digits) : Digits[k] = c) - 1

\* int(t) of a text of digits
RECURSIVE IntOf(_)
IntOf(t) ==
    IF t = << >> THEN 0
    ELSE IntOf(SubSeq(t, 1, Len(t) - 1)) * 10 + DigitVal(t[Len(t)])

\* t.split(sep): the texts between the occurrences of the character sep
RECURSIVE Split(_, _)
Split(t, sep) ==
    LET at == {k \in 1..Len(t) : t[k] = sep}
    IN  IF at = {} THEN << t >>
        ELSE LET k == CHOOSE k \in at : \A j \in at : k <= j
             IN  << SubSeq(t, 1, k - 1) >> \o Split(SubSeq(t, k + 1, Len(t)), sep)

\* t.strip()
RECURSIVE Strip(_)
Strip(t) ==
    IF t # << >> /\ t[1] = " " THEN Strip(Tail(t))
    ELSE IF t # << >> /\ t[Len(t)] = " " THEN Strip(SubSeq(t, 1, Len(t) - 1))
    ELSE t

NonEmpty(w) == w # << >>

\* t.split(): the runs of characters between white space
Words(t) == SelectSeq(Split(t, " "), NonEmpty)

\* Line 404: date_text.split('@')[0].strip().split()[-1]; << >> stands for
\* the IndexError of [-1] on an empty list.
DatePart(text) ==
    LET w == Words(Strip(Split(text, "@")[1]))
    IN  IF w = << >> THEN << >> ELSE w[Len(w)]

AllDigits(t) == \A k \in 1..Len(t) : IsDigit(t[k])

\* %m matches 1[0-2]|0[1-9]|[1-9]
IsMonthText(t) == Len(t) \in {1, 2} /\ AllDigits(t) /\ IntOf(t) \in 1..12

\* %d matches 3[01]|[12]\d|0[1-9]|[1-9]
IsDayText(t) == Len(t) \in {1, 2} /\ AllDigits(t) /\ IntOf(t) \in 1..31

\* %y matches \d\d
IsYearText(t) == Len(t) = 2 /\ AllDigits(t)

\* %y of strptime: 00..68 is 2000..2068, 69..99 is 1969..1999.
Century(yy) == IF yy <= 68 THEN 2000 + yy ELSE 1900 + yy

IsLeap(y) == (y % 4 = 0 /\ y % 100 # 0) \/ y % 400 = 0

DaysInMonth(y, m) ==
    IF m = 2 THEN (IF IsLeap(y) THEN 29 ELSE 28)
    ELSE IF m \in {4, 6, 9, 11} THEN 30
    ELSE 31

\* Line 405: datetime.strptime(t, '%m/%d/%y'); None stands for the ValueError.
StrpTime(t) ==
    LET f == Split(t, "/")
    IN  IF Len(f) # 3 THEN None
        ELSE IF ~(IsMonthText(f[1]) /\ IsDayText(f[2]) /\ IsYearText(f[3]))
             THEN None
        ELSE LET y == Century(IntOf(f[3]))
                 m == IntOf(f[1])
                 d == IntOf(f[2])
             IN  IF d > DaysInMonth(y, m) THEN None
                 ELSE y * 10000 + m * 100 + d

\* Lines 400-405 and 483-485: class_date for the label text, None when an
\* exception was raised.
ParseTileDate(text) ==
    LET part == DatePart(Strip(text))
    IN  IF part = << >> THEN None ELSE StrpTime(part)

(* Labels: "Tue 11/25/25 @ 1:00 PM" and its variants *)

TwoDigits(n) == << Digits[(n \div 10) + 1], Digits[(n % 10) + 1] >>

DateText(mo, dy, yy) ==
    TwoDigits(mo) \o << "/" >> \o TwoDigits(dy) \o << "/" >> \o TwoDigits(yy)

Weekday == << "T", "u", "e" >>

Time == << "1", ":", "0", "0", " ", "P", "M" >>

\* What follows the date: " @ 1:00 PM", " 1:00 PM" or nothing.
LabelTails == { << " ", "@", " " >> \o Time, << " " >> \o Time, << >> }

LabelMonths == {2, 11, 13}
LabelDays == {25, 29}
LabelYears == 0..99

Label(mo, dy, yy, tail) == Weekday \o << " " >> \o DateText(mo, dy, yy) \o tail

Labels ==
    { Label(mo, dy, yy, tail) :
        mo \in LabelMonths, dy \in LabelDays, yy \in LabelYears,
        tail \in LabelTails }

InitParse ==
    /\ max_classes = DefaultMaxClasses
    /\ start_date = None
    /\ end_date = None
    /\ oldest_first = FALSE
    /\ host_stable = TRUE
    /\ catalog = << >>
    /\ loaded = 0
    /\ modal_data = "none"
    /\ date_text \in Labels
    /\ class_date = None
    /\ i = 0
    /\ classes = << >>
    /\ processed_ids = {}
    /\ classes_outside_range = 0
    /\ consecutive_skips = 0
    /\ found_range_start = FALSE
    /\ skip_increment = 1
    /\ stale_element_errors = 0
    /\ pc = "parse"
    /\ exit = "none"
    /\ decision = "none"
    /\ returned = << >>
    /\ db = {}
    /\ saved = 0
    /\ call_log = << >>
    /\ stale_streak = 0
    /\ other_faults = 0
    /\ lost = 0
    /\ NoBrowser
    /\ NoFields
    /\ NoMonths
    /\ NoPlan
    /\ NoBatch
    /\ NoSync

\* Lines 400-405, with the except clause of 483-485.
ParseLabel ==
    /\ pc = "parse"
    /\ class_date' = ParseTileDate(date_text)
    /\ pc' = "parsed"
    /\ UNCHANGED << config, windows, fields, month_vars, plan_vars, batch_vars, sync_vars, loaded, modal_data, date_text, locals,
                    exit, decision, returned, db, saved, call_log,
                    stale_streak, other_faults, lost >>

NextParse == ParseLabel

SpecParse == InitParse /\ [][NextParse]_vars

----------------------------------------------------------------------------
(* wait_for_modal_and_get (189-244) and the record built from what it      *)
(* returns (521-555), on their own.  A float is its value in hundredths.   *)

\* The character U+00B7 that separates instructor and programme.
MiddleDot == "~"

\* c in t
Contains(t, c) == \E k \in 1..Len(t) : t[k] = c

\* 'min' in t
ContainsMin(t) ==
    \E k \in 1..(Len(t) - 2) : SubSeq(t, k, k + 2) = << "m", "i", "n" >>

\* The last position of the run of digits that starts at position p.
RECURSIVE RunEnd(_, _)
RunEnd(t, p) ==
    IF p < Len(t) /\ IsDigit(t[p + 1]) THEN RunEnd(t, p + 1) ELSE p

\* \s*min matches at position k.
RECURSIVE MinFollows(_, _)
MinFollows(t, k) ==
    IF k > Len(t) THEN FALSE
    ELSE IF t[k] = " " THEN MinFollows(t, k + 1)
    ELSE k + 2 <= Len(t) /\ SubSeq(t, k, k + 2) = << "m", "i", "n" >>

\* Lines 211-213: re.search(r"(\d{2,}|\d)\s*min", t) and int(m.group(1)).
\* The leftmost match starts a run of digits and takes all of it: a shorter
\* piece of the run would be followed by a digit, not by \s*min.
BadgeMatch(t) ==
    LET at == {p \in 1..Len(t) : IsDigit(t[p]) /\ MinFollows(t, RunEnd(t, p) + 1)}
    IN  IF at = {} THEN << >>
        ELSE LET p == CHOOSE q \in at : \A r \in at : q <= r
             IN  << IntOf(SubSeq(t, p, RunEnd(t, p))) >>

\* int(t) for a token: an optional sign and digits; << >> is the ValueError.
IntText(t) ==
    LET signed == t # << >> /\ t[1] \in {"+", "-"}
        body == IF signed THEN Tail(t) ELSE t
    IN  IF body = << >> \/ ~AllDigits(body) THEN << >>
        ELSE << IF t[1] = "-" THEN 0 - IntOf(body) ELSE IntOf(body) >>

\* float(t) in hundredths for a decimal text: an optional sign, digits, and
\* at most one point; << >> is the ValueError.  The texts studied carry no
\* exponent and at most two decimals.
Float(t) ==
    LET signed == t # << >> /\ t[1] \in {"+", "-"}
        body == IF signed THEN Tail(t) ELSE t
        parts == Split(body, ".")
        whole == parts[1]
        frac == IF Len(parts) = 2 THEN parts[2] ELSE << >>
    IN  IF \/ Len(parts) > 2
           \/ ~AllDigits(whole)
           \/ ~AllDigits(frac)
           \/ (whole = << >> /\ frac = << >>)
        THEN << >>
        ELSE LET v == IntOf(whole) * 100 + (IntOf(frac) * 100) \div (10 ^ Len(frac))
             IN  << IF t[1] = "-" THEN 0 - v ELSE v >>

\* Lines 198-205: the instructor; the subtitle of a legacy class has no
\* separator; any exception gives "".
Instructor(el) ==
    IF el.state # "ok" THEN << >>
    ELSE LET sub == Strip(el.text)
         IN  IF Contains(sub, MiddleDot) THEN Strip(Split(sub, MiddleDot)[1])
                                         ELSE sub

\* Lines 209-216: the first span that contains 'min' (find_element by XPath),
\* its text searched for the number before 'min'; << >> when no span is
\* found, its text cannot be read or the pattern does not match.
BadgeDuration(spans) ==
    LET at == {k \in 1..Len(spans) : ContainsMin(spans[k].text)}
    IN  IF at = {} THEN << >>
        ELSE LET pill == spans[CHOOSE k \in at : \A j \in at : k <= j]
             IN  IF pill.state # "ok" THEN << >> ELSE BadgeMatch(pill.text)

\* Lines 217-221: int(title.split()[0]), None on any exception.
TitleDuration(title) ==
    LET w == Words(title)
    IN  IF w = << >> THEN << >> ELSE IntText(w[1])

\* Lines 207-221.
Duration(spans, title) ==
    IF BadgeDuration(spans) # << >> THEN BadgeDuration(spans)
                                    ELSE TitleDuration(title)

\* Faulty variant of RatingText: a text with a '+' is not excluded.
RatingText_plus(t) == t # << >> /\ Contains(t, ".")

\* Line 229: if t and '.' in t and '+' not in t
RatingText(t) == t # << >> /\ Contains(t, ".") /\ ~Contains(t, "+")

\* Line 232: 0 <= val <= 10
InRange(val) == 0 <= val /\ val <= 1000

\* Lines 224-238: the scan of the spans; the first text that passes the tests
\* is the rating (break); a span whose text cannot be read ends the scan with
\* rating None (the outer except).
RECURSIVE Rating(_)
Rating(spans) ==
    IF spans = << >> THEN << >>
    ELSE IF Head(spans).state # "ok" THEN << >>
    ELSE LET t == Strip(Head(spans).text)
         IN  IF RatingText(t) /\ Float(t) # << >> /\ InRange(Float(t)[1])
             THEN Float(t)
             ELSE Rating(Tail(spans))

\* Lines 239-244: the dict that is returned.
ModalData ==
    [raised |-> FALSE,
     title |-> Strip(el_title.text),
     instructor |-> Instructor(el_subtitle),
     duration |-> Duration(el_spans, Strip(el_title.text)),
     rating |-> Rating(el_spans)]

\* Lines 521-548: class_info (the fields the extractor decides); title is the
\* title of the tile.
Record(data, title) ==
    [title |-> IF data.title # << >> THEN data.title ELSE title,
     instructor |-> data.instructor,
     duration_minutes |-> data.duration,
     difficulty_rating |-> data.rating]

(* The detail views studied *)

\* The most spans of a page.
MaxSpans == 2

TextPZ == << "P", "Z" >>

TitleTexts ==
    { << >>,
      TextPZ,
      << "4", "5", " " >> \o TextPZ,
      << " ", "3", "0", " " >> \o TextPZ \o << " " >>,
      << "0", " " >> \o TextPZ,
      << "-", "5", " " >> \o TextPZ }

SubtitleTexts ==
    { << "A", "B" >>,
      << " ", "A", "B", " ", MiddleDot, " ", "C" >>,
      << "A", MiddleDot, "B", MiddleDot, "C" >>,
      << MiddleDot, " ", "C" >> }

SpanTexts ==
    { << "4", "5", " ", "m", "i", "n" >>,
      << "0", "m", "i", "n" >>,
      << "m", "i", "n", "i" >>,
      << "8", ".", "5" >>,
      << "1", "2", "0", "+" >>,
      << "+", "8", ".", "5" >>,
      << "1", "2", ".", "5" >>,
      << " ", "1", "0", ".", "0", " " >>,
      << "0", ".", "0" >>,
      << "-", "1", ".", "5" >>,
      << "4", ".", "5", "K" >>,
      << "7" >> }

Spans == {Element("ok", t) : t \in SpanTexts} \cup {Element("stale", << >>)}

RECURSIVE SeqsUpTo(_, _)
SeqsUpTo(S, n) ==
    IF n = 0 THEN {<< >>}
    ELSE LET shorter == SeqsUpTo(S, n - 1)
         IN  shorter \cup {Append(q, x) : q \in shorter, x \in S}

\* Every variable of the traversal, of main and of the date parser at rest.
NoScraper ==
    /\ max_classes = DefaultMaxClasses
    /\ start_date = None
    /\ end_date = None
    /\ oldest_first = FALSE
    /\ host_stable = TRUE
    /\ catalog = << >>
    /\ loaded = 0
    /\ modal_data = "none"
    /\ date_text = << >>
    /\ class_date = None
    /\ i = 0
    /\ classes = << >>
    /\ processed_ids = {}
    /\ classes_outside_range = 0
    /\ consecutive_skips = 0
    /\ found_range_start = FALSE
    /\ skip_increment = 1
    /\ stale_element_errors = 0
    /\ exit = "none"
    /\ decision = "none"
    /\ returned = << >>
    /\ db = {}
    /\ saved = 0
    /\ call_log = << >>
    /\ stale_streak = 0
    /\ other_faults = 0
    /\ lost = 0
    /\ NoBrowser

\* The detail view is present (the wait of lines 193-195 is over).
InitFields ==
    /\ NoScraper
    /\ pc = "fields"
    /\ tile_title = TextPZ
    /\ el_title \in {Element("ok", t) : t \in TitleTexts}
                       \cup {Element("stale", << >>)}
    /\ el_subtitle \in {Element("ok", t) : t \in SubtitleTexts}
                          \cup {Element("missing", << >>), Element("stale", << >>)}
    /\ el_spans \in SeqsUpTo(Spans, MaxSpans)
    /\ modal_out = NoOut
    /\ class_info = NoRecord
    /\ NoMonths
    /\ NoPlan
    /\ NoBatch
    /\ NoSync

\* Line 197: the title element found again went stale: the call raises.
GetFieldsRaises ==
    /\ pc = "fields"
    /\ el_title.state # "ok"
    /\ modal_out' = [NoOut EXCEPT !.raised = TRUE]
    /\ pc' = "raised"
    /\ UNCHANGED << scraper, batch_vars, sync_vars, month_vars, plan_vars, tile_title, el_title, el_subtitle,
                    el_spans, class_info >>

\* Lines 197-244.
GetFields ==
    /\ pc = "fields"
    /\ el_title.state = "ok"
    /\ modal_out' = ModalData
    /\ pc' = "got"
    /\ UNCHANGED << scraper, batch_vars, sync_vars, month_vars, plan_vars, tile_title, el_title, el_subtitle,
                    el_spans, class_info >>

\* Lines 521-555: the record is built and appended.
BuildRecord ==
    /\ pc = "got"
    /\ class_info' = Record(modal_out, tile_title)
    /\ pc' = "emitted"
    /\ UNCHANGED << scraper, batch_vars, sync_vars, month_vars, plan_vars, tile_title, el_title, el_subtitle,
                    el_spans, modal_out >>

NextFields == GetFieldsRaises \/ GetFields \/ BuildRecord

SpecFields == InitFields /\ [][NextFields]_vars

----------------------------------------------------------------------------
(* get_month_ranges of src/batch_scrape.py (lines 12-44), on its own *)

\* datetime(y, m, d)
DateOf(y, m, d) == y * 10000 + m * 100 + d

\* d + relativedelta(months=1): the same day of the next month, or the last
\* day of that month when it is shorter.
AddMonth(d) ==
    LET y == IF Month(d) = 12 THEN Year(d) + 1 ELSE Year(d)
        m == IF Month(d) = 12 THEN 1 ELSE Month(d) + 1
    IN  DateOf(y, m, Min(Day(d), DaysInMonth(y, m)))

\* Faulty variant of MinusDay: every month is taken to have 30 days.
MinusDay_thirty(d) ==
    IF Day(d) > 1 THEN d - 1
    ELSE IF Month(d) = 1 THEN DateOf(Year(d) - 1, 12, 30)
    ELSE DateOf(Year(d), Month(d) - 1, 30)

\* d - timedelta(days=1)
MinusDay(d) ==
    IF Day(d) > 1 THEN d - 1
    ELSE IF Month(d) = 1 THEN DateOf(Year(d) - 1, 12, 31)
    ELSE DateOf(Year(d), Month(d) - 1, DaysInMonth(Year(d), Month(d) - 1))

\* The years of the calls studied; 2024 is a leap year.
RangeYears == 2023..2025

InitMonths ==
    /\ NoScraper
    /\ NoFields
    /\ pc = "months"
    /\ start_year \in RangeYears
    /\ start_month \in 1..12
    /\ end_year \in RangeYears
    /\ end_month \in 1..12
    /\ current = None
    /\ end = None
    /\ ranges = << >>
    /\ NoPlan
    /\ NoBatch
    /\ NoSync

\* Lines 25-27.
MonthsStart ==
    /\ pc = "months"
    /\ ranges' = << >>
    /\ current' = DateOf(start_year, start_month, 1)
    /\ end' = DateOf(end_year, end_month, 1)
    /\ pc' = "month_loop"
    /\ UNCHANGED << scraper, batch_vars, sync_vars, fields, plan_vars, start_year, start_month, end_year,
                    end_month >>

\* Lines 29-42: one pass of the loop.
MonthStep ==
    /\ pc = "month_loop"
    /\ current <= end
    /\ LET start_date_ == current
           next_month == AddMonth(current)
           end_date_ == MinusDay(next_month)
       IN  /\ ranges' = Append(ranges, << Strftime(start_date_), Strftime(end_date_) >>)
           /\ current' = next_month
    /\ UNCHANGED << scraper, batch_vars, sync_vars, fields, plan_vars, start_year, start_month, end_year,
                    end_month, end, pc >>

\* Lines 29 and 44: the loop is over, ranges is returned.
MonthsReturn ==
    /\ pc = "month_loop"
    /\ ~(current <= end)
    /\ pc' = "month_ranges"
    /\ UNCHANGED << scraper, batch_vars, sync_vars, fields, plan_vars, month_vars >>

NextMonths == MonthsStart \/ MonthStep \/ MonthsReturn

SpecMonths == InitMonths /\ [][NextMonths]_vars

----------------------------------------------------------------------------
(* main and run_scraper of src/batch_scrape.py: one refresh_cache.py process *)
(* per month range, after get_month_ranges.                                 *)

\* How a refresh_cache.py process can go (refresh_cache.py, main):
\* "scraped": the traversal returned and its records were saved (670-679);
\* "setup_failed": navigation or the filter failed, the traversal returned []
\* (270-321) and main printed "No classes found or saved" (681);
\* "login_error": init_driver or login raised (664-665);
\* "save_error": save_class_to_db raised (678);
\* "no_credentials": get_credentials raised (662), outside the try.
ScraperOutcomes ==
    {"scraped", "setup_failed", "login_error", "save_error", "no_credentials"}

\* The exit status of the process: Exception is caught at line 682 and main
\* returns, so the interpreter exits with 0; an exception that escapes main
\* ends it with 1.
ExitStatus(outcome) == IF outcome = "no_credentials" THEN 1 ELSE 0

\* Lines 72-79: subprocess.run(cmd, check=True) raises CalledProcessError on
\* a non-zero exit status.
run_scraper(outcome) == ExitStatus(outcome) = 0

\* The months of 2025 main asks for: now.month when the year is 2025.
MaxBatchMonths == 4

InitBatch ==
    /\ NoScraper
    /\ NoFields
    /\ NoPlan
    /\ NoBatch
    /\ NoSync
    /\ pc = "months"
    /\ start_year = 2025
    /\ start_month = 1
    /\ end_year = 2025
    /\ end_month \in 1..MaxBatchMonths
    /\ current = None
    /\ end = None
    /\ ranges = << >>

\* Lines 102-109: one pass of the for loop.
BatchMonth ==
    /\ pc = "month_ranges"
    /\ month_no < Len(ranges)
    /\ \E outcome \in ScraperOutcomes :
          /\ success' = IF run_scraper(outcome) THEN success + 1 ELSE success
          /\ failed' = IF run_scraper(outcome) THEN failed
                       ELSE Append(failed, ranges[month_no + 1])
          /\ completed' = IF outcome = "scraped"
                          THEN completed \cup {month_no + 1} ELSE completed
    /\ month_no' = month_no + 1
    /\ UNCHANGED << scraper, sync_vars, fields, plan_vars, month_vars, pc >>

\* Lines 80-82 and 110-114: KeyboardInterrupt during a scraper run.
BatchInterrupt ==
    /\ pc = "month_ranges"
    /\ month_no < Len(ranges)
    /\ pc' = "batch_exit_130"
    /\ UNCHANGED << scraper, sync_vars, fields, plan_vars, month_vars,
                    batch_vars >>

\* Lines 116-134: the summary.
BatchSummary ==
    /\ pc = "month_ranges"
    /\ month_no = Len(ranges)
    /\ pc' = "batch_done"
    /\ UNCHANGED << scraper, sync_vars, fields, plan_vars, month_vars,
                    batch_vars >>

NextBatch ==
    \/ MonthsStart
    \/ MonthStep
    \/ MonthsReturn
    \/ BatchMonth
    \/ BatchInterrupt
    \/ BatchSummary

SpecBatch == InitBatch /\ [][NextBatch]_vars

----------------------------------------------------------------------------
(* merge_workout_data and main of src/pelolytics.py.  A cell of a DataFrame *)
(* is its dtype and its text (an int is the text of its decimal digits); a  *)
(* row is a function from column names to cells; a CSV file is the list of  *)
(* its rows, each a function from column names to texts.                    *)

Cell(t, s) == [t |-> t, s |-> s]

\* DataFrame.to_csv(path, index=False): the text of every cell.
to_csv(df) == [k \in 1..Len(df) |-> [c \in DOMAIN df[k] |-> df[k][c].s]]

\* pd.read_csv(path): a column whose texts are all digits is read as int64,
\* any other as str.
read_csv(file) ==
    LET IsInt(c) == \A k \in 1..Len(file) : file[k][c] # << >> /\ AllDigits(file[k][c])
    IN  [k \in 1..Len(file) |->
            [c \in DOMAIN file[k] |->
                Cell(IF IsInt(c) THEN "int" ELSE "str", file[k][c])]]

\* Lines 54-59: None (<< >>) when the file does not exist.
load_existing_data(file) == IF file = << >> THEN << >> ELSE << read_csv(file[1]) >>

\* Lines 77-98: scalar fields are kept, the fields of 'ride' get the prefix
\* 'ride.', other dicts and lists are dropped.
flatten_workout_data(workout) ==
    [c \in (DOMAIN workout \ {"ride", "achievements"})
           \cup {"ride." \o f : f \in DOMAIN workout.ride} |->
        IF c \in DOMAIN workout THEN workout[c]
        ELSE workout.ride[CHOOSE f \in DOMAIN workout.ride : "ride." \o f = c]]

\* df.columns
Columns(df) == UNION {DOMAIN df[k] : k \in 1..Len(df)}

\* The rows of df at the positions of K, in the order of df.
RECURSIVE Take(_, _)
Take(df, K) ==
    IF df = << >> THEN << >>
    ELSE LET rest == Take(SubSeq(df, 1, Len(df) - 1), K)
         IN  IF Len(df) \in K THEN Append(rest, df[Len(df)]) ELSE rest

\* df.drop_duplicates(subset=[col], keep='last')
drop_duplicates(df, col) ==
    Take(df, {k \in 1..Len(df) :
                 \A j \in (k + 1)..Len(df) : df[j][col] # df[k][col]})

\* df.sort_values(col, ascending=False) of an int64 column.  Frames of fewer
\* than 17 rows are sorted by insertion: rows with equal values keep their
\* order.
RECURSIVE sort_values(_, _)
sort_values(df, col) ==
    IF df = << >> THEN << >>
    ELSE LET rest == sort_values(Tail(df), col)
             before == {k \in 1..Len(rest) :
                           \A j \in 1..k : IntOf(rest[j][col].s) > IntOf(df[1][col].s)}
             n == Cardinality(before)
         IN  SubSeq(rest, 1, n) \o << df[1] >> \o SubSeq(rest, n + 1, Len(rest))

\* Lines 100-116.  existing_df is << >> for None.
merge_workout_data(existing_df, new_df) ==
    IF existing_df = << >> THEN new_df
    ELSE LET combined_df == existing_df[1] \o new_df
             deduped == IF "id" \in Columns(combined_df)
                        THEN drop_duplicates(combined_df, "id")
                        ELSE combined_df
         IN  IF "created_at" \in Columns(deduped)
             THEN sort_values(deduped, "created_at")
             ELSE deduped

\* Lines 166-176: the row of the metrics of one workout.
metrics_data(workout, metrics) ==
    [c \in {"workout_id", "created_at", "fitness_discipline"} \cup DOMAIN metrics |->
        IF c \in DOMAIN metrics THEN metrics[c]
        ELSE IF c = "workout_id" THEN workout.id
        ELSE workout[c]]

\* The syncs of a run of the model.
MaxSyncs == 2

\* A workout as the API returns it: created_at is fixed by the workout, the
\* total work changes while the workout is in progress.
Workout(id, created_at, total_work) ==
    [id |-> Cell("str", << id >>),
     created_at |-> Cell("int", << created_at >>),
     fitness_discipline |-> Cell("str", << "c" >>),
     total_work |-> Cell("int", << total_work >>),
     ride |-> [id |-> Cell("str", << "r" >>)],
     achievements |-> << >>]

WorkoutA == {Workout("a", "1", w) : w \in {"5", "7"}}
WorkoutB == {Workout("b", "2", w) : w \in {"5", "7"}}

\* What fetch_workouts returns: no workout is listed twice.
RawWorkouts ==
    {<< a >> : a \in WorkoutA} \cup {<< b >> : b \in WorkoutB}
        \cup {<< b, a >> : a \in WorkoutA, b \in WorkoutB}

\* What fetch_workout_metrics returns for a workout (the performance graph).
Metrics == [duration |-> Cell("int", << "9" >>)]

InitSync ==
    /\ NoScraper
    /\ NoFields
    /\ NoMonths
    /\ NoPlan
    /\ NoBatch
    /\ NoSync
    /\ pc = "sync"

\* Lines 133-155: the workouts are fetched, merged into workouts.csv and
\* saved.
SyncWorkouts ==
    /\ pc = "sync"
    /\ sync_no < MaxSyncs
    /\ \E raw \in RawWorkouts :
          LET new_workouts_df == [k \in 1..Len(raw) |-> flatten_workout_data(raw[k])]
              merged_df == merge_workout_data(load_existing_data(workouts_csv),
                                              new_workouts_df)
          IN  /\ raw_workouts' = raw
              /\ workouts_csv' = << to_csv(merged_df) >>
    /\ sync_no' = sync_no + 1
    /\ pc' = "sync_metrics"
    /\ UNCHANGED << scraper, fields, month_vars, plan_vars, batch_vars,
                    metrics_csv >>

\* Lines 136-138: no workout was fetched.
SyncNothing ==
    /\ pc = "sync"
    /\ sync_no < MaxSyncs
    /\ sync_no' = sync_no + 1
    /\ UNCHANGED << scraper, fields, month_vars, plan_vars, batch_vars, pc,
                    workouts_csv, metrics_csv, raw_workouts >>

\* Lines 157-200: the metrics of every workout are fetched (got: the
\* workouts whose metrics came), merged into workout_metrics.csv and saved.
SyncMetrics ==
    /\ pc = "sync_metrics"
    /\ \E got \in SUBSET (1..Len(raw_workouts)) :
          LET metrics_list == [k \in 1..Len(raw_workouts) |->
                                  metrics_data(raw_workouts[k], Metrics)]
              metrics_df == Take(metrics_list, got)
              existing_metrics == load_existing_data(metrics_csv)
          IN  metrics_csv' =
                  IF metrics_df = << >> THEN metrics_csv
                  ELSE IF existing_metrics # << >>
                       THEN << to_csv(merge_workout_data(existing_metrics, metrics_df)) >>
                       ELSE << to_csv(metrics_df) >>
    /\ raw_workouts' = << >>
    /\ pc' = "sync"
    /\ UNCHANGED << scraper, fields, month_vars, plan_vars, batch_vars,
                    workouts_csv, sync_no >>

NextSync == SyncWorkouts \/ SyncNothing \/ SyncMetrics

SpecSync == InitSync /\ [][NextSync]_vars

----------------------------------------------------------------------------
(* fetch_candidate, fetch_matched_warmup_for_test and generate_plan of      *)
(* src/generate_plan.py, on their own.  A title is a sequence of words, a   *)
(* rating or an intensity is its value in tenths, a nullable column is      *)
(* << >> for NULL and << v >> for the value v, original_air_time is a day   *)
(* number.                                                                  *)

\* title LIKE '%kw%': the words kw appear in the title, side by side.
Like(title, kw) ==
    \E k \in 1..(Len(title) - Len(kw) + 1) : SubSeq(title, k, k + Len(kw) - 1) = kw

\* Lines 43-52: KEYWORD_MAP.get(template_type, []).
KEYWORD_MAP(template_type) ==
    IF template_type = "Power Zone Endurance" THEN << << "Power", "Zone", "Endurance" >> >>
    ELSE IF template_type = "Power Zone Max" THEN << << "Power", "Zone", "Max" >> >>
    ELSE IF template_type = "Power Zone" THEN << << "Power", "Zone" >> >>
    ELSE IF template_type = "FTP Test" THEN << << "FTP", "Test" >> >>
    ELSE IF template_type = "FTP Warm Up" THEN << << "FTP", "Warm" >> >>
    ELSE IF template_type = "Low Impact" THEN << << "Low", "Impact" >> >>
    ELSE IF template_type = "Ride" THEN << << "Ride" >> >>
    ELSE << >>

\* Line 54.
EXCLUDE_SUBSTRINGS_FOR_PURE_POWER_ZONE == << << "Endurance" >>, << "Max" >> >>

\* Lines 119-134: the title conditions of run_query.
TitleMatches(title, template_type, allow_loose_title) ==
    \/ allow_loose_title
    \/ /\ \A k \in 1..Len(KEYWORD_MAP(template_type)) :
             Like(title, KEYWORD_MAP(template_type)[k])
       /\ template_type = "Power Zone" =>
             \A k \in 1..Len(EXCLUDE_SUBSTRINGS_FOR_PURE_POWER_ZONE) :
                ~Like(title, EXCLUDE_SUBSTRINGS_FOR_PURE_POWER_ZONE[k])
       /\ template_type = "FTP Test" => Like(title, << "Test" >>)

\* x BETWEEN low AND high for a nullable column x.
Between(x, window) == x # << >> /\ window[1] <= x[1] /\ x[1] <= window[2]

\* The elements of a list.
Range(s) == {s[k] : k \in 1..Len(s)}

\* Lines 99-141, run_query: the rows the WHERE clause keeps; ORDER BY
\* RANDOM() LIMIT 1 returns any one of them.  A window or instructor that is
\* None is << >>.
run_query(row, duration_window, rating_window, restrict_instructors, allow_loose_title, force_instructor) ==
    {c \in plan_db :
        /\ c.difficulty_rating # << >>
        /\ force_instructor # << >> => c.instructor = force_instructor[1]
        /\ duration_window # << >> => Between(c.duration_minutes, duration_window)
        /\ rating_window # << >> => Between(c.difficulty_rating, rating_window)
        /\ (restrict_instructors /\ row.instructors # << >> /\ force_instructor = << >>)
              => c.instructor \in Range(row.instructors)
        /\ TitleMatches(c.title, row.type, allow_loose_title)}

\* Line 146.
RatingWindow(row) ==
    IF row.intensity_max > 0 THEN << row.intensity_min, row.intensity_max >>
                             ELSE << >>

\* Line 147.
DurationWindow(row) ==
    IF row.duration > 0 THEN << row.duration, row.duration >> ELSE << >>

\* (max(1, duration_min - by), duration_min + by)
Wider(row, by) == << Max(1, row.duration - by), row.duration + by >>

\* (max(0, rating_window[0] - by), min(10, rating_window[1] + by))
Widened(row, by) ==
    << Max(0, row.intensity_min - by), Min(100, row.intensity_max + by) >>

\* The first of a list of sets that is not empty, {} when all are.
RECURSIVE FirstHit(_)
FirstHit(tiers) ==
    IF tiers = << >> THEN {}
    ELSE IF Head(tiers) # {} THEN Head(tiers)
    ELSE FirstHit(Tail(tiers))

\* Lines 149-159, step 0: the preferred instructor with wide parameters.
Step0(row, prefer) ==
    IF prefer = << >> THEN {}
    ELSE run_query(row,
                   IF row.duration > 0 THEN Wider(row, 15) ELSE << >>,
                   IF RatingWindow(row) # << >> THEN Widened(row, 20) ELSE << >>,
                   FALSE, TRUE, prefer)

\* Lines 174-182, step 4: the rating window widened by 2.0, then by 3.0.
Step4(row, by) ==
    IF allow_fallback /\ RatingWindow(row) # << >>
    THEN run_query(row, DurationWindow(row), Widened(row, by), FALSE, FALSE, << >>)
    ELSE {}

\* Lines 143-189: the rows fetch_candidate may return, {} when it returns
\* None: the result of the first step whose query finds a row.
fetch_candidate(row, prefer) ==
    FirstHit(<< Step0(row, prefer),
                run_query(row, DurationWindow(row), RatingWindow(row), TRUE, FALSE, << >>),
                run_query(row, DurationWindow(row), RatingWindow(row), FALSE, FALSE, << >>),
                IF row.duration > 0
                THEN run_query(row, Wider(row, 10), RatingWindow(row), FALSE, FALSE, << >>)
                ELSE {},
                Step4(row, 20),
                Step4(row, 30),
                run_query(row, DurationWindow(row), << >>, FALSE, FALSE, << >>),
                run_query(row, Wider(row, 15), << >>, FALSE, TRUE, << >>) >>)

\* title LIKE '%FTP Warm%' OR title LIKE '%Warm Up%'
IsWarmUp(c) == Like(c.title, << "FTP", "Warm" >>) \/ Like(c.title, << "Warm", "Up" >>)

\* ORDER BY duration_minutes ASC: NULL sorts first.
DurationKey(c) == IF c.duration_minutes = << >> THEN 0 - 1 ELSE c.duration_minutes[1]

\* Lines 191-225: the warm-ups fetch_matched_warmup_for_test may return: of
\* the same instructor and day, the shortest; failing that within a day, the
\* nearest (ORDER BY ... ASC LIMIT 1 returns any of the least).
fetch_matched_warmup_for_test(test_class) ==
    LET same_day == {c \in plan_db :
                        /\ c.instructor = test_class.instructor
                        /\ c.original_air_time = test_class.original_air_time
                        /\ IsWarmUp(c)}
        near == {c \in plan_db :
                    /\ c.instructor = test_class.instructor
                    /\ IsWarmUp(c)
                    /\ Abs(c.original_air_time - test_class.original_air_time) <= 1}
        Gap(c) == Abs(c.original_air_time - test_class.original_air_time)
    IN  IF same_day # {}
        THEN {c \in same_day : \A d \in same_day : DurationKey(c) <= DurationKey(d)}
        ELSE {c \in near : \A d \in near : Gap(c) <= Gap(d)}

\* Lines 238-242; line 295: INSTRUCTOR_LIMITS.get(instructor, 999).
NoLimit == 999

INSTRUCTOR_LIMITS(instructor) ==
    IF instructor = "CHRISTINE D'ERCOLE" THEN 2
    ELSE IF instructor \in {"ERIK JAEGER", "CHARLOTTE WEIDENBACH"} THEN 5
    ELSE NoLimit

\* Lines 245-251.
MUST_INCLUDE ==
    {"OLIVIA AMATO", "TUNDE OYENEYIN", "HANNAH FRANKSON", "BEN ALLDIS", "SAM YO"}

\* Line 286: while candidate and retry < 10
MaxRetries == 10

\* Line 277: the must-include check starts this many rows before the end.
NearEnd == 10

\* instructor_counts.get(instructor, 0)
CountOf(counts, instructor) ==
    IF instructor \in DOMAIN counts THEN counts[instructor] ELSE 0

\* instructor_counts[instructor] = instructor_counts.get(instructor, 0) + 1
Counted(counts, instructor) ==
    [n \in DOMAIN counts \cup {instructor} |->
        IF n = instructor THEN CountOf(counts, instructor) + 1 ELSE counts[n]]

TemplateRow == template_rows[row_no + 1]

\* Line 267: tpl_type.lower() == "rest" or duration == 0
IsRest(row) == row.type \in {"Rest", "rest", "REST"} \/ row.duration = 0

\* An output row: Template_Type and Selected_Class_ID ("" is 0).
OutputRow(type, id) == [type |-> type, id |-> id]

\* Lines 267-272: a rest row is copied with no class.
PlanRest ==
    /\ pc = "plan_row"
    /\ row_no < Len(template_rows)
    /\ IsRest(TemplateRow)
    /\ output_rows' = Append(output_rows, OutputRow(TemplateRow.type, 0))
    /\ row_no' = row_no + 1
    /\ UNCHANGED << scraper, batch_vars, sync_vars, fields, month_vars, plan_input, pc,
                    prefer_instructor, candidate, retry, used_ids,
                    instructor_counts, included_instructors, unmatched >>

\* Lines 274-280: near the end a missing must-include instructor is forced;
\* set.pop() gives any of them.
Preferences ==
    LET missing_instructors == MUST_INCLUDE \ included_instructors
    IN  IF missing_instructors # {} /\ Len(output_rows) > Len(template_rows) - NearEnd
        THEN {<< n >> : n \in missing_instructors}
        ELSE {<< >>}

\* A row fetch_candidate may return for the row at hand, << >> for None.
Fetched(prefer) ==
    IF fetch_candidate(TemplateRow, prefer) = {} THEN {<< >>}
    ELSE {<< c >> : c \in fetch_candidate(TemplateRow, prefer)}

\* Lines 274-285: the first fetch for a row.
PlanFetch ==
    /\ pc = "plan_row"
    /\ row_no < Len(template_rows)
    /\ ~IsRest(TemplateRow)
    /\ prefer_instructor' \in Preferences
    /\ candidate' \in Fetched(prefer_instructor')
    /\ retry' = 0
    /\ pc' = "plan_retry"
    /\ UNCHANGED << scraper, batch_vars, sync_vars, fields, month_vars, plan_input, row_no, used_ids,
                    instructor_counts, included_instructors, output_rows,
                    unmatched >>

\* Lines 289 and 294-296: the candidate is used already, or its instructor
\* has reached the cap.
Rejected(c) ==
    \/ c.id \in used_ids
    \/ CountOf(instructor_counts, c.instructor) >= INSTRUCTOR_LIMITS(c.instructor)

\* Line 286.
Retrying == candidate # << >> /\ retry < MaxRetries

\* Lines 286-301: another fetch.
PlanRetry ==
    /\ pc = "plan_retry"
    /\ Retrying
    /\ Rejected(candidate[1])
    /\ candidate' \in Fetched(prefer_instructor)
    /\ retry' = retry + 1
    /\ UNCHANGED << scraper, batch_vars, sync_vars, fields, month_vars, plan_input, pc, row_no,
                    prefer_instructor, used_ids, instructor_counts,
                    included_instructors, output_rows, unmatched >>

\* The while loop is over: no candidate, no retry left, or break (301).
RetryOver == IF Retrying THEN ~Rejected(candidate[1]) ELSE TRUE

\* Lines 303-309: the row has no match.
PlanNoMatch ==
    /\ pc = "plan_retry"
    /\ RetryOver
    /\ IF candidate = << >> THEN TRUE ELSE candidate[1].id \in used_ids
    /\ unmatched' = unmatched + 1
    /\ output_rows' = Append(output_rows, OutputRow(TemplateRow.type, 0))
    /\ row_no' = row_no + 1
    /\ pc' = "plan_row"
    /\ UNCHANGED << scraper, batch_vars, sync_vars, fields, month_vars, plan_input,
                    prefer_instructor, candidate, retry, used_ids,
                    instructor_counts, included_instructors >>

\* Faulty variant of WarmUpFree: a warm-up that is in the plan is taken again.
WarmUpFree_any(w, ids, counts) ==
    CountOf(counts, w.instructor) < INSTRUCTOR_LIMITS(w.instructor)

\* Lines 320-323: the warm-up is not in the plan and its instructor is under
\* the cap.
WarmUpFree(w, ids, counts) ==
    /\ w.id \notin ids
    /\ CountOf(counts, w.instructor) < INSTRUCTOR_LIMITS(w.instructor)

\* Lines 311-334: the candidate is taken; for an FTP Test its matched warm-up
\* goes in first.
PlanSelect ==
    /\ pc = "plan_retry"
    /\ RetryOver
    /\ candidate # << >>
    /\ candidate[1].id \notin used_ids
    /\ LET c == candidate[1]
           ids == used_ids \cup {c.id}
           counts == Counted(instructor_counts, c.instructor)
           included == included_instructors \cup {c.instructor}
           chosen == OutputRow(TemplateRow.type, c.id)
           warms == IF TemplateRow.type = "FTP Test"
                    THEN {w \in fetch_matched_warmup_for_test(c) : WarmUpFree(w, ids, counts)}
                    ELSE {}
           none == IF TemplateRow.type = "FTP Test"
                   THEN fetch_matched_warmup_for_test(c) = {}
                           \/ \E w \in fetch_matched_warmup_for_test(c) : ~WarmUpFree(w, ids, counts)
                   ELSE TRUE
       IN  \/ /\ none
              /\ used_ids' = ids
              /\ instructor_counts' = counts
              /\ included_instructors' = included
              /\ output_rows' = Append(output_rows, chosen)
           \/ \E w \in warms :
                 /\ used_ids' = ids \cup {w.id}
                 /\ instructor_counts' = Counted(counts, w.instructor)
                 /\ included_instructors' = included \cup {w.instructor}
                 /\ output_rows' = output_rows \o << OutputRow("FTP Warm Up", w.id), chosen >>
    /\ row_no' = row_no + 1
    /\ pc' = "plan_row"
    /\ UNCHANGED << scraper, batch_vars, sync_vars, fields, month_vars, plan_input,
                    prefer_instructor, candidate, retry, unmatched >>

\* Lines 336-368: the rows are written.
PlanDone ==
    /\ pc = "plan_row"
    /\ row_no = Len(template_rows)
    /\ pc' = "plan_done"
    /\ UNCHANGED << scraper, batch_vars, sync_vars, fields, month_vars, plan_vars >>

(* The databases and templates studied *)

\* The most rows of a template.
MaxRows == 2

Class(id, title, instructor, duration, rating, day) ==
    [id |-> id, title |-> title, instructor |-> instructor,
     duration_minutes |-> duration, difficulty_rating |-> rating,
     original_air_time |-> day]

PowerZoneRide == << "Power", "Zone", "Ride" >>

ClassPZ45 == Class(1, PowerZoneRide, "MATT WILPERS", << 45 >>, << 55 >>, 1)
ClassPZ30 == Class(2, PowerZoneRide, "OLIVIA AMATO", << 30 >>, << 55 >>, 2)
ClassPZHard == Class(3, PowerZoneRide, "CHRISTINE D'ERCOLE", << 45 >>, << 90 >>, 3)
ClassTest == Class(4, << "FTP", "Test", "Ride" >>, "MATT WILPERS", << 20 >>, << 80 >>, 4)
ClassWarm == Class(5, << "FTP", "Warm", "Up", "Ride" >>, "MATT WILPERS", << 15 >>, << 40 >>, 4)
ClassUnrated ==
    Class(6, << "Power", "Zone", "Endurance", "Ride" >>, "MATT WILPERS", << 45 >>, << >>, 5)
ClassTestCD == Class(7, << "FTP", "Test", "Ride" >>, "CHRISTINE D'ERCOLE", << 20 >>, << 80 >>, 6)
ClassWarmCD ==
    Class(8, << "FTP", "Warm", "Up", "Ride" >>, "CHRISTINE D'ERCOLE", << 15 >>, << 40 >>, 6)

PlanDbs ==
    { {},
      {ClassPZ45},
      {ClassPZ45, ClassPZ30},
      {ClassPZHard},
      {ClassPZ45, ClassPZHard, ClassUnrated},
      {ClassTest, ClassWarm},
      {ClassTestCD, ClassWarmCD, ClassPZHard},
      {ClassPZ45, ClassPZ30, ClassPZHard, ClassTest, ClassWarm, ClassUnrated} }

Row(type, duration, intensity_min, intensity_max, instructors) ==
    [type |-> type, duration |-> duration, intensity_min |-> intensity_min,
     intensity_max |-> intensity_max, instructors |-> instructors]

Rows ==
    { Row("Power Zone", 45, 50, 60, << >>),
      Row("Power Zone", 45, 50, 60, << "CHRISTINE D'ERCOLE" >>),
      Row("Power Zone Endurance", 45, 50, 60, << >>),
      Row("FTP Test", 20, 0, 0, << >>),
      Row("FTP Warm Up", 15, 0, 0, << >>),
      Row("Rest", 0, 0, 0, << >>) }

InitPlan ==
    /\ NoScraper
    /\ NoFields
    /\ NoMonths
    /\ NoBatch
    /\ NoSync
    /\ pc = "plan_row"
    /\ plan_db \in PlanDbs
    /\ template_rows \in SeqsUpTo(Rows, MaxRows)
    /\ allow_fallback \in BOOLEAN
    /\ row_no = 0
    /\ prefer_instructor = << >>
    /\ candidate = << >>
    /\ retry = 0
    /\ used_ids = {}
    /\ instructor_counts = << >>
    /\ included_instructors = {}
    /\ output_rows = << >>
    /\ unmatched = 0

NextPlan ==
    \/ PlanRest
    \/ PlanFetch
    \/ PlanRetry
    \/ PlanNoMatch
    \/ PlanSelect
    \/ PlanDone

SpecPlan == InitPlan /\ [][NextPlan]_vars

----------------------------------------------------------------------------
(* Claims *)

\* The traversal has not returned yet.
InTraversal == pc \in {"setup", "head", "body"}

\* The window as the specification states it: both bounds inclusive, an
\* absent bound is no bound.
InWindow(d) ==
    /\ (start_date = None \/ d >= start_date)
    /\ (end_date = None \/ d <= end_date)

\* The catalog is ordered by date in the direction of the traversal.
DateOrdered ==
    \A k \in 1..(Len(catalog) - 1) :
        IF oldest_first THEN catalog[k].date <= catalog[k + 1].date
                        ELSE catalog[k].date >= catalog[k + 1].date

AllParsable == \A k \in 1..Len(catalog) : catalog[k].date # None

Ids(recs) == {recs[k].id : k \in 1..Len(recs)}

\* The date an original_air_time text stands for.
AirDate(t) == t[1] * 10000 + t[2] * 100 + t[3]

AllInWindow(recs) ==
    \A k \in 1..Len(recs) :
        recs[k].original_air_time # << >>
            => InWindow(AirDate(recs[k].original_air_time))

\* The record of the last save_class_to_db call made for id.
LastCallFor(id) ==
    call_log[CHOOSE k \in DOMAIN call_log :
                 /\ call_log[k].id = id
                 /\ \A j \in DOMAIN call_log : j > k => call_log[j].id # id]

IsPrefix(a, b) == Len(a) <= Len(b) /\ \A k \in 1..Len(a) : a[k] = b[k]

\* C1: every run of the catalog traversal over a finite catalog eventually
\* ends (STOP, end of catalog, maxEntries or abort), whatever the window, the
\* direction and the catalog.
C1_TraversalEnds == <>(~InTraversal)

\* C2: over a date-ordered catalog with parsable dates, a stable host, no
\* failure and max_classes above the catalog length, when the run ends every
\* catalog entry dated in [start_date, end_date] is in the result.
C2_WindowFullyExtracted ==
    (/\ pc = "returned"
     /\ host_stable
     /\ DateOrdered
     /\ AllParsable
     /\ max_classes > Len(catalog))
    => \A k \in 1..Len(catalog) :
          InWindow(catalog[k].date) => catalog[k].id \in Ids(returned)

\* C3: each extracted record is saved before the next catalog entry is
\* examined, so an interrupt loses at most the one record in flight.
C3_SavedOnExtraction ==
    /\ pc = "head" => \A k \in 1..Len(classes) : classes[k] \in db
    /\ pc = "interrupted" => lost <= 1

\* C4: every record with a non-empty original_air_time has that date inside
\* the window (bounds inclusive), and a tile whose parsed date is outside the
\* window is never opened.
C4_RecordsInsideWindow ==
    /\ [](AllInWindow(classes) /\ AllInWindow(returned)
          /\ \A r \in db : r.original_air_time # << >>
                              => InWindow(AirDate(r.original_air_time)))
    /\ [][(pc = "body" /\ pc' # "interrupted"
             /\ Tile.date # None /\ ~InWindow(Tile.date))
            => (classes' = classes /\ processed_ids' = processed_ids
                /\ decision' # "open")]_vars
\* C4 witness: a run over a catalog with a dated tile outside the window
\* returned the records dated on both bounds of the window.
C4_Witness ==
    /\ pc = "returned"
    /\ start_date # None
    /\ end_date # None
    /\ \E k \in 1..Len(returned) : returned[k].original_air_time = << 2025, 3, 10 >>
    /\ \E k \in 1..Len(returned) : returned[k].original_air_time = << 2025, 3, 20 >>
    /\ \E k \in 1..Len(catalog) :
          catalog[k].date # None /\ ~InWindow(catalog[k].date)

\* C5: after any sequence of save_class_to_db calls the table holds exactly
\* one row per saved id, the record of the last call made for that id.
C5_UpsertKeepsLastCall ==
    /\ \A id \in Ids(call_log) : {r \in db : r.id = id} = {LastCallFor(id)}
    /\ \A r \in db : r.id \in Ids(call_log)
\* C5 witness: one id was saved twice with different values, one row is held.
C5_Witness ==
    /\ Cardinality(db) = 1
    /\ \E j, k \in DOMAIN call_log :
          j < k /\ call_log[j].id = call_log[k].id /\ call_log[j] # call_log[k]

C7_PartialResultsKept ==
    [][(pc \in {"head", "body"} /\ pc' \in {"head", "body"}
            => IsPrefix(classes, classes'))
       /\ (pc \in {"head", "body"} /\ pc' = "returned"
            => returned' = classes /\ classes' = classes
               /\ exit' \in {"cap", "end_of_catalog", "stop", "abort"})]_vars
\* C7 witness: a run aborted at the threshold, after a failure of another
\* kind too, returned two or more records.
C7_Witness ==
    /\ pc = "returned"
    /\ exit = "abort"
    /\ other_faults > 0
    /\ Len(returned) >= 2

\* C8: a run never returns more than max_classes records.
C8_AtMostMaxClasses ==
    Len(classes) <= max_classes /\ Len(returned) <= max_classes
\* C8 witness: the loop condition ended a run over a longer catalog with
\* exactly max_classes records.
C8_Witness ==
    /\ pc = "returned"
    /\ exit = "cap"
    /\ Len(returned) = max_classes
    /\ Len(catalog) > max_classes

\* C9: max_classes caps the records, not the position: the cap ends a run
\* only when the number of extracted records has reached max_classes.
C9_CapCountsRecords == exit = "cap" => Len(returned) >= max_classes

\* C10: with neither start_date nor end_date the first tile examined is
\* extracted on its first visit and the loop never takes a backtrack branch.
C10_NoBacktrackWithoutWindow ==
    (start_date = None /\ end_date = None)
        => decision \notin {"enter", "overshoot"}

\* The loop body ran to a branch of the date block or to the end of the
\* iteration: no exception reached the handler, no interrupt.
BodyStep ==
    /\ pc = "body"
    /\ pc' \notin {"body", "interrupted"}
    /\ decision' \notin {"stale", "error", "session_lost"}

Dated == Tile.date # None

EarlierThanStart == start_date # None /\ Tile.date < start_date

LaterThanEnd == end_date # None /\ Tile.date > end_date

\* The absolute calendar-month difference of two dates.
MonthGap(a, b) ==
    Abs(((a \div 10000) - (b \div 10000)) * 12
          + (((a \div 100) % 100) - ((b \div 100) % 100)))

NoDuplicateIds(recs) ==
    \A j, k \in 1..Len(recs) : j # k => recs[j].id # recs[k].id

C12_EnterWindowOnce ==
    /\ [][(BodyStep /\ ~found_range_start /\ Dated /\ InWindow(Tile.date)) =>
            (/\ decision' = "enter"
             /\ found_range_start'
             /\ i' = Max(0, i - 20)
             /\ classes' = classes
             /\ processed_ids' = processed_ids
             /\ pc' = "head")]_vars
    /\ [][(found_range_start /\ pc' # "interrupted") => found_range_start']_vars
    /\ [][(pc = "body" /\ found_range_start) => decision' # "enter"]_vars
\* C12 witness: the window was entered at position 21 and the run went back
\* to position 1 with nothing extracted.
C12_Witness ==
    /\ pc = "head"
    /\ decision = "enter"
    /\ found_range_start
    /\ i = 1
    /\ classes = << >>

\* C13: newest-first, the window not entered: a tile dated before start_date
\* moves i back by 20 (not below 0) and changes nothing else.
C13_OvershootOnlyMovesBack ==
    [][(BodyStep /\ ~oldest_first /\ ~found_range_start /\ Dated
          /\ EarlierThanStart) =>
         (/\ i' = Max(0, i - 20)
          /\ pc' = "head"
          /\ UNCHANGED << found_range_start, processed_ids, classes,
                          consecutive_skips, stale_element_errors,
                          classes_outside_range, skip_increment, modal_data,
                          loaded, exit, returned, db >>)]_vars
\* C13 witness: a skip of 21 landed on a tile before start_date and the run
\* went back to position 1.
C13_Witness ==
    /\ pc = "head"
    /\ decision = "overshoot"
    /\ ~found_range_start
    /\ i = 1
    /\ classes_outside_range = 1

\* C14: the window not entered, the tile dated outside it on the approach
\* side (newest-first: after end_date, oldest-first: before start_date): the
\* tile is not opened and i advances by max(1, floor(m * 27 * 0.8)), m the
\* calendar-month difference to that bound; 216 for m = 10, 1 for m = 0.
C14_ApproachSkip ==
    [][(/\ BodyStep
        /\ ~found_range_start
        /\ Dated
        /\ IF oldest_first THEN EarlierThanStart ELSE LaterThanEnd) =>
         LET m == MonthGap(Tile.date, IF oldest_first THEN start_date ELSE end_date)
         IN  /\ i' = i + Max(1, (m * 27 * 8) \div 10)
             /\ m = 10 => i' = i + 216
             /\ m = 0 => i' = i + 1
             /\ decision' # "open"
             /\ classes' = classes
             /\ processed_ids' = processed_ids
             /\ pc' = "head"]_vars
\* C14 witness: the first tile was 10 months from the bound and the run is
\* at position 216.
C14_Witness ==
    /\ pc = "head"
    /\ decision = "fast_forward"
    /\ i = 216
    /\ skip_increment = 216

HasAt(text) == \E k \in 1..Len(text) : text[k] = "@"

\* C15: every label '<weekday> MM/DD/YY @ <time>' with a valid month and day
\* and any YY from 00 to 99 parses to the date of year 2000 + YY, month MM,
\* day DD.
C15_TwoDigitYearIs2000Plus ==
    \A mo \in LabelMonths, dy \in LabelDays, yy \in LabelYears :
        (/\ pc = "parsed"
         /\ mo \in 1..12
         /\ dy \in 1..DaysInMonth(2000 + yy, mo)
         /\ date_text = Label(mo, dy, yy, << " ", "@", " " >> \o Time))
        => class_date = (2000 + yy) * 10000 + mo * 100 + dy

\* C16: a label without the '@' separator is always rejected as unparsable,
\* whatever its other tokens are.
C16_NoSeparatorNoDate ==
    (pc = "parsed" /\ ~HasAt(date_text)) => class_date = None

\* C17: a tile whose date label is missing or unparsable is opened and
\* extracted whatever the window and its state, its record has an empty
\* original_air_time, the window state and the counters are unchanged and
\* the run goes on at the next position.
C17_DatelessExtractedThenNext ==
    [][(pc = "body" /\ pc' # "interrupted" /\ host_stable /\ Tile.date = None) =>
         (/\ classes' = Append(classes, [id |-> Tile.id, original_air_time |-> << >>])
          /\ i' = i + 1
          /\ pc' = "head"
          /\ UNCHANGED << found_range_start, consecutive_skips,
                          stale_element_errors, classes_outside_range,
                          skip_increment >>)]_vars

\* C18: no two records of classes, or of the returned list, have the same id.
C18_NoDuplicateRecords == NoDuplicateIds(classes) /\ NoDuplicateIds(returned)
\* C18 witness: a class that is in classes was opened again at another
\* position of the list and not appended.
C18_Witness ==
    /\ pc = "head"
    /\ decision = "open"
    /\ i < Len(catalog)
    /\ Tile.id \in Ids(classes)
    /\ \E k \in 1..Len(catalog) : k # i + 1 /\ catalog[k].id = Tile.id

\* C19: with position i beyond the loaded tiles the driver asks the host for
\* more and samples the list again; when the host has no more to give the
\* run ends at end of catalog and returns the records collected so far.
C19_LoadMoreOrEndOfCatalog ==
    [][(pc = "head" /\ pc' # "interrupted" /\ i < max_classes /\ i >= loaded) =>
         /\ loaded < Len(catalog) =>
               (loaded' > loaded /\ pc' = "head" /\ i' = i /\ classes' = classes)
         /\ loaded = Len(catalog) =>
               (pc' = "returned" /\ exit' = "end_of_catalog" /\ returned' = classes)]_vars

\* C20: when neither the modal nor the details-page fallback gave the data of
\* the opened tile, no record is added, the run is not ended and the next
\* position is examined.
C20_FallbackFailureSkipsTile ==
    [][(/\ pc = "body"
        /\ pc' # "interrupted"
        /\ modal_data = "failed") =>
         (/\ classes' = classes
          /\ pc' = "head"
          /\ exit' = "none"
          /\ i' = i + 1)]_vars

\* C21: whenever the details-page fallback runs, whether the extraction in the
\* details window returns the data or raises, the details window is closed
\* before the call returns, the main window is then open and the one the
\* driver is on, and while the details window is open no step of the
\* traversal runs: the next step closes it and changes nothing else.
C21_DetailsWindowClosed ==
    /\ [](Len(window_handles) > 1 =>
            (pc = "body" /\ modal_data = "pending"
             /\ window_handles = << "main", "details" >>
             /\ current_window = "details"))
    /\ []((pc = "body" /\ modal_data \in {"fallback", "failed"}) =>
            (window_handles = << "main" >> /\ current_window = "main"))
    /\ [][(Len(window_handles) > 1 /\ pc' # "interrupted") =>
            (/\ window_handles' = << "main" >>
             /\ current_window' = "main"
             /\ modal_data' \in {"fallback", "failed"}
             /\ UNCHANGED << locals, loaded, pc, exit, decision, returned >>)]_vars
\* C21 witness: the extraction in the details window raised, the call is
\* over, only the main window is open and the driver is on it.
C21_Witness ==
    /\ pc = "body"
    /\ modal_data = "failed"
    /\ window_handles = << "main" >>
    /\ current_window = "main"

\* C25: with any of the four combinations of start_date and end_date given or
\* not, in either direction, the traversal starts and runs without raising
\* an error.
C25_AbsentBoundsNeverRaise == ~(pc = "crashed" /\ exit = "crash")

\* C26: once the browser session is lost during the traversal the run is
\* aborted at once, no further position of the list is attempted; and a
\* failure ends the traversal only when it is session-level or reaches the
\* stale-failure threshold.
C26_SessionFailureAborts ==
    /\ [][(pc \in {"head", "body"} /\ pc' # "interrupted"
             /\ window_handles' = << >>) => pc' = "returned"]_vars
    /\ [][(pc \in {"head", "body"} /\ pc' = "returned"
             /\ decision' \in {"stale", "error", "session_lost"}) =>
            (exit' = "abort" \/ decision' = "session_lost")]_vars

\* A span whose text can be read: it has a decimal point and no '+', and is
\* a number between 0 and 10.
Qualifies(el) ==
    /\ el.state = "ok"
    /\ Contains(el.text, ".")
    /\ ~Contains(el.text, "+")
    /\ Float(Strip(el.text)) # << >>
    /\ Float(Strip(el.text))[1] >= 0
    /\ Float(Strip(el.text))[1] <= 1000

\* The spans that qualify and were reached: every span before them was read.
Reached ==
    {k \in 1..Len(el_spans) :
        Qualifies(el_spans[k]) /\ \A j \in 1..k : el_spans[j].state = "ok"}

Extracted == pc \in {"got", "emitted"}

C23_DurationPositiveOrUnknown ==
    Extracted => (modal_out.duration = << >> \/ modal_out.duration[1] > 0)

\* C24: with the detail view present no field failure fails the extraction:
\* a missing subtitle gives an empty instructor, a subtitle without the
\* separator is the instructor, a subtitle with it gives the text before
\* it, and the record is built also when duration or rating are unknown.
C24_FieldFailuresAbsorbed ==
    /\ pc # "raised"
    /\ Extracted =>
          /\ el_subtitle.state = "missing" => modal_out.instructor = << >>
          /\ (el_subtitle.state = "ok" /\ ~Contains(el_subtitle.text, MiddleDot)) =>
                modal_out.instructor = Strip(el_subtitle.text)
          /\ (el_subtitle.state = "ok" /\ Contains(el_subtitle.text, MiddleDot)) =>
                \E k \in 1..Len(el_subtitle.text) :
                   /\ el_subtitle.text[k] = MiddleDot
                   /\ ~Contains(SubSeq(el_subtitle.text, 1, k - 1), MiddleDot)
                   /\ modal_out.instructor = Strip(SubSeq(el_subtitle.text, 1, k - 1))
    /\ pc = "emitted" =>
          /\ class_info.duration_minutes = modal_out.duration
          /\ class_info.difficulty_rating = modal_out.rating
          /\ class_info.instructor = modal_out.instructor

\* The n-th calendar month from the start month of the call (n = 0 is the
\* start month), as year and month.
NthMonth(n) ==
    LET k == start_year * 12 + (start_month - 1) + n
    IN  << k \div 12, (k % 12) + 1 >>

\* The day after the date of a text.
DayAfter(t) ==
    IF t[3] < DaysInMonth(t[1], t[2]) THEN << t[1], t[2], t[3] + 1 >>
    ELSE IF t[2] < 12 THEN << t[1], t[2] + 1, 1 >>
    ELSE << t[1] + 1, 1, 1 >>

\* C30: get_month_ranges returns one range per calendar month from the start
\* month through the end month, in order; each range runs from the first to
\* the last day of its month, the day after the end of a range is the start
\* of the next; the list is empty when the start month is after the end month.
C30_OneRangePerMonth ==
    pc = "month_ranges" =>
        LET n == (end_year * 12 + end_month) - (start_year * 12 + start_month) + 1
        IN  IF n <= 0 THEN ranges = << >>
            ELSE /\ Len(ranges) = n
                 /\ \A k \in 1..n :
                       LET ym == NthMonth(k - 1)
                       IN  /\ ranges[k][1] = << ym[1], ym[2], 1 >>
                           /\ ranges[k][2] = << ym[1], ym[2], DaysInMonth(ym[1], ym[2]) >>
                 /\ \A k \in 1..(n - 1) : DayAfter(ranges[k][2]) = ranges[k + 1][1]
\* C30 witness: November 2023 to March 2024 gives five ranges, the fourth is
\* 2024-02-01 to 2024-02-29.
C30_Witness ==
    /\ pc = "month_ranges"
    /\ << start_year, start_month, end_year, end_month >> = << 2023, 11, 2024, 3 >>
    /\ Len(ranges) = 5
    /\ ranges[4] = << << 2024, 2, 1 >>, << 2024, 2, 29 >> >>

\* The class fetch_candidate returned for the template row at hand.
Returned == pc = "plan_retry" /\ candidate # << >>

\* C27: in the plan no class id is in more than one output row, the
\* selected classes and the inserted FTP warm-ups alike (rows without a
\* class have no id).
C27_NoClassTwiceInPlan ==
    \A j, k \in 1..Len(output_rows) :
        (j < k /\ output_rows[j].id # 0) => output_rows[j].id # output_rows[k].id
\* C27 witness: the warm-up was selected for an FTP Warm Up row, the FTP Test
\* row after it found the same warm-up and did not insert it again.
C27_Witness ==
    /\ pc = "plan_done"
    /\ plan_db = {ClassTest, ClassWarm}
    /\ Len(template_rows) = 2
    /\ template_rows[2].type = "FTP Test"
    /\ output_rows = << OutputRow("FTP Warm Up", ClassWarm.id),
                        OutputRow("FTP Test", ClassTest.id) >>

\* C28: without --allow-fallback a class returned for a row with
\* Intensity_Max > 0 has its rating within [Intensity_Min, Intensity_Max].
C28_RatingWindowKept ==
    (Returned /\ ~allow_fallback /\ TemplateRow.intensity_max > 0) =>
        Between(candidate[1].difficulty_rating,
                << TemplateRow.intensity_min, TemplateRow.intensity_max >>)

\* C29: a class returned for a row with Duration_Min > 0 has a rating and a
\* duration within 15 minutes of the row's, and has another duration than
\* the row's only when no class of that exact duration passes the steps
\* before the duration is widened (steps 1 and 2).
C29_ExactDurationPreferred ==
    (Returned /\ TemplateRow.duration > 0) =>
        /\ candidate[1].difficulty_rating # << >>
        /\ Between(candidate[1].duration_minutes,
                   << TemplateRow.duration - 15, TemplateRow.duration + 15 >>)
        /\ candidate[1].duration_minutes # << TemplateRow.duration >> =>
              run_query(TemplateRow, DurationWindow(TemplateRow),
                        RatingWindow(TemplateRow), FALSE, FALSE, << >>) = {}

\* C35: when the tile opened at position i has an id that is already in
\* processed_ids, no record is added and the run goes on at position i + 1.
C35_ProcessedIdAdvances ==
    [][(/\ pc = "body"
        /\ pc' = "head"
        /\ decision' = "open"
        /\ Tile.id \in processed_ids) =>
         (/\ classes' = classes
          /\ i' = i + 1)]_vars

\* C36: during the traversal processed_ids is the set of the ids of the
\* records in classes.
C36_ProcessedIdsAreRecords == InTraversal => processed_ids = Ids(classes)

\* C33: the first jump of a run with a window moves position i by the skip
\* estimated before the loop from the reference date.
C33_FirstJumpIsInitialEstimate ==
    [][(/\ pc = "body"
        /\ decision' = "fast_forward"
        /\ classes_outside_range = 0) => i' = i + InitialSkip]_vars

\* C37: during the traversal found_range_start never goes back from TRUE to
\* FALSE, a record of a tile with a date is appended only with
\* found_range_start TRUE, and after the break of a stop (lines 462, 469) no
\* tile is fetched any more.
C37_WindowStateMovesForward ==
    [][/\ (InTraversal /\ pc' # "interrupted" /\ found_range_start)
              => found_range_start'
       /\ (/\ pc = "body"
           /\ Len(classes') > Len(classes)
           /\ Tile.date # None) => (found_range_start /\ found_range_start')
       /\ exit = "stop" => (pc' \notin {"setup", "head", "body"} /\ exit' # "none")]_vars

\* C37 witness: the window was entered, a record with a date was collected
\* and the run ended with a stop.
C37_Witness ==
    /\ pc = "returned"
    /\ exit = "stop"
    /\ found_range_start
    /\ \E k \in 1..Len(returned) : returned[k].original_air_time # << >>

\* A tile of the catalog is dated inside the window.
WindowInCatalog == \E k \in 1..Len(catalog) : catalog[k].date # None /\ InWindow(catalog[k].date)

\* C38: an oldest-first run over a catalog in date order that has a tile dated
\* inside the window is ended by a date after end_date (lines 458-462) only
\* after the window was entered.
C38_StopPastEndOnlyAfterEntry ==
    (/\ pc = "returned"
     /\ exit = "stop"
     /\ oldest_first
     /\ DateOrdered
     /\ AllParsable
     /\ WindowInCatalog) => found_range_start

\* C39: a run over a catalog in date order that has a tile dated inside the
\* window is not ended by the end of the catalog (lines 386-389) before the
\* window was entered.
C39_NoEndOfCatalogBeforeEntry ==
    (/\ pc = "returned"
     /\ exit = "end_of_catalog"
     /\ DateOrdered
     /\ AllParsable
     /\ WindowInCatalog) => found_range_start

\* C31: in a batch run the ranges counted in success are those whose scraper
\* run completed its scrape, every other range is in the failed list, and
\* success plus the length of failed is the number of ranges processed.
C31_SuccessMeansScraped ==
    pc \in {"month_ranges", "batch_done", "batch_exit_130"} =>
        /\ success + Len(failed) = month_no
        /\ success = Cardinality(completed)
        /\ \A m \in 1..month_no :
              m \notin completed => \E k \in 1..Len(failed) : failed[k] = ranges[m]

\* The rows of a CSV file have pairwise different texts in column col.
OneRowPerKey(file, col) ==
    file # << >> =>
        \A j, k \in 1..Len(file[1]) : j # k => file[1][j][col] # file[1][k][col]

\* C32: after every merge workouts.csv has at most one row per id and
\* workout_metrics.csv at most one row per workout_id, and the row of a
\* workout just fetched has the values fetched.
C32_MergeAvoidsDuplicates ==
    /\ OneRowPerKey(workouts_csv, "id")
    /\ OneRowPerKey(metrics_csv, "workout_id")
    /\ pc = "sync_metrics" =>
          \A k \in 1..Len(raw_workouts) :
              \E j \in 1..Len(workouts_csv[1]) :
                  /\ workouts_csv[1][j].id = raw_workouts[k].id.s
                  /\ workouts_csv[1][j].total_work = raw_workouts[k].total_work.s

\* The output rows whose class is one of instructor.
RowsOf(instructor) ==
    {k \in 1..Len(output_rows) :
        \E c \in plan_db : c.id = output_rows[k].id /\ c.instructor = instructor}

\* C34: no instructor with a cap in INSTRUCTOR_LIMITS has more output rows
\* than the cap.
C34_InstructorCapsKept ==
    \A n \in {"CHRISTINE D'ERCOLE", "ERIK JAEGER", "CHARLOTTE WEIDENBACH"} :
        Cardinality(RowsOf(n)) <= INSTRUCTOR_LIMITS(n)

\* C40: when every class of the first step of fetch_candidate that finds a
\* row is in the plan already, the row gets NO MATCH only if every class that
\* the last step (rating dropped, title loose, duration within 15 minutes)
\* accepts for it is in the plan as well.
C40_NoMatchOnlyWhenNothingLeft ==
    [][(/\ pc = "plan_retry"
        /\ unmatched' = unmatched + 1
        /\ \A c \in fetch_candidate(TemplateRow, prefer_instructor) :
               c.id \in used_ids) =>
         \A c \in run_query(TemplateRow, Wider(TemplateRow, 15), << >>, FALSE, TRUE, << >>) :
             c.id \in used_ids]_vars

====
